---- MODULE Spec2Model ----
(***************************************************************************)
(* Video Browser Pro (script.js): the video library state engine.          *)
(*                                                                         *)
(* The model keeps the module-level variables of script.js (allVideos,     *)
(* favorites, playlists, videoTags, ...), the three localStorage           *)
(* documents, and the asynchronous handlers that are suspended at an       *)
(* await.  JavaScript strings that the code inspects character by          *)
(* character (file names, ids, resolutions, the playlist name input) are   *)
(* sequences of one-character strings.  An optional property of a          *)
(* JavaScript object is a set: {} when the property is undefined, {v}      *)
(* when it holds v.                                                        *)
(***************************************************************************)
EXTENDS Integers, Sequences, FiniteSets, TLC

(***************************************************************************)
(* Bounds of the model.                                                    *)
(***************************************************************************)
MaxInFlight == 2    \* asynchronous handlers suspended at the same time
MaxPlaylists == 2   \* length of the playlists array
MaxSavedDate == 1   \* Date.now() values seen by savePlaylist

(***************************************************************************)
(* String primitives.                                                      *)
(***************************************************************************)
Range(s) == {s[i] : i \in DOMAIN s}

\* String.prototype.toLowerCase on one character (the letters the model uses)
LowerChar(c) ==
  CASE c = "A" -> "a"
    [] c = "B" -> "b"
    [] c = "K" -> "k"
    [] c = "M" -> "m"
    [] c = "P" -> "p"
    [] c = "V" -> "v"
    [] OTHER -> c

ToLowerCase(s) == [i \in 1..Len(s) |-> LowerChar(s[i])]

\* String.prototype.includes
Includes(s, q) ==
  \E i \in 0..(Len(s) - Len(q)) : SubSeq(s, i + 1, i + Len(q)) = q

\* s.split(sep).pop(): the part of s after the last sep, all of s without one
SplitPop(s, sep) ==
  LET at == {i \in 1..Len(s) : s[i] = sep}
  IN  IF at = {} THEN s
      ELSE LET last == CHOOSE i \in at : \A j \in at : j <= i
           IN  SubSeq(s, last + 1, Len(s))

\* s.split(sep)[0]: the part of s before the first sep
SplitFirst(s, sep) ==
  LET at == {i \in 1..Len(s) : s[i] = sep}
  IN  IF at = {} THEN s
      ELSE LET first == CHOOSE i \in at : \A j \in at : i <= j
           IN  SubSeq(s, 1, first - 1)

\* String.prototype.trim (the only white space of the model is " ")
RECURSIVE TrimLeft(_)
TrimLeft(s) == IF s # <<>> /\ Head(s) = " " THEN TrimLeft(Tail(s)) ELSE s

RECURSIVE TrimRight(_)
TrimRight(s) ==
  IF s # <<>> /\ s[Len(s)] = " " THEN TrimRight(SubSeq(s, 1, Len(s) - 1)) ELSE s

\* the value taken as typed
Untrimmed(s) == s

Trim(s) == TrimRight(TrimLeft(s))

DigitChar(d) == <<"0", "1", "2", "3", "4", "5", "6", "7", "8", "9">>[d + 1]

\* a non-negative integer interpolated into a template literal
RECURSIVE NumToStr(_)
NumToStr(n) ==
  IF n < 10 THEN <<DigitChar(n)>> ELSE NumToStr(n \div 10) \o <<DigitChar(n % 10)>>

DigitValue(c) == CHOOSE d \in 0..9 : DigitChar(d) = c

\* Number(s) for a string of decimal digits
RECURSIVE StrToNum(_)
StrToNum(s) ==
  IF s = <<>> THEN 0
  ELSE 10 * StrToNum(SubSeq(s, 1, Len(s) - 1)) + DigitValue(s[Len(s)])

Max(a, b) == IF a >= b THEN a ELSE b

(***************************************************************************)
(* The files and folders the user can hand to the program.  A file is the  *)
(* File object's name, size and lastModified, what the decoder finds in it *)
(* (decodes, duration, videoWidth, videoHeight) and the place it lies at,  *)
(* which tells two copies of one file apart.                               *)
(***************************************************************************)
FileA ==
  [name |-> <<"A", ".", "M", "P", "4">>, size |-> 1, lastModified |-> 1,
   decodes |-> TRUE, duration |-> 8, videoWidth |-> 1920, videoHeight |-> 1080,
   at |-> "dir1"]

\* a copy of FileA lying elsewhere: same name, size and lastModified
FileACopy == [FileA EXCEPT !.at = "dir2"]

FileB ==
  [name |-> <<"b", ".", "m", "k", "v">>, size |-> 2, lastModified |-> 2,
   decodes |-> FALSE, duration |-> 0, videoWidth |-> 0, videoHeight |-> 0,
   at |-> "dir1"]

\* not a video: the extension is not in the whitelist
FileTxt ==
  [name |-> <<"n", ".", "t", "x", "t">>, size |-> 3, lastModified |-> 3,
   decodes |-> FALSE, duration |-> 0, videoWidth |-> 0, videoHeight |-> 0,
   at |-> "dir1"]

\* a third video, of the catalogs the query engine is run over
FileC ==
  [name |-> <<"a", "b", ".", "m", "p", "4">>, size |-> 2, lastModified |-> 3,
   decodes |-> TRUE, duration |-> 5, videoWidth |-> 1280, videoHeight |-> 720,
   at |-> "dir3"]

\* the directory handles the picker can return
Handles == {"dir1", "dir2"}

\* directoryHandle.values(): the entries of the folder, files and sub-folders
DirEntries(h) ==
  IF h = "dir1"
  THEN << [kind |-> "file", file |-> FileA],
          [kind |-> "directory", file |-> FileB],
          [kind |-> "file", file |-> FileTxt],
          [kind |-> "file", file |-> FileB] >>
  ELSE << [kind |-> "file", file |-> FileACopy] >>

\* dataTransfer.files of the drops the user makes
DropBatches == { <<FileA, FileTxt, FileACopy>>, <<FileTxt>> }

(***************************************************************************)
(* Identity and metadata deriver.                                          *)
(***************************************************************************)
ValidExtensions ==
  { <<"m", "p", "4">>, <<"m", "o", "v">>, <<"a", "v", "i">>, <<"m", "k", "v">>,
    <<"w", "e", "b", "m">>, <<"m", "p", "4">>, <<"f", "l", "v">>, <<"w", "m", "v">> }

\* file.name.split(".").pop().toLowerCase()
Extension(name) == ToLowerCase(SplitPop(name, "."))

\* `${video.videoWidth}x${video.videoHeight}`
FormatResolution(w, h) == NumToStr(w) \o <<"x">> \o NumToStr(h)

\* generateThumbnail: onseeked resolves with the frame, onerror with the
\* degraded result
generateThumbnail(file) ==
  IF file.decodes
  THEN [thumbnail |-> "data:image/jpeg", duration |-> file.duration,
        resolution |-> FormatResolution(file.videoWidth, file.videoHeight)]
  ELSE [thumbnail |-> "", duration |-> 0, resolution |-> <<"0", "x", "0">>]

\* `${video.file.name}_${video.file.size}_${video.file.lastModified}`
\* an id that joins the three parts with nothing between them
VideoIdUnseparated(file) ==
  file.name \o NumToStr(file.size) \o NumToStr(file.lastModified)

VideoId(file) ==
  file.name \o <<"_">> \o NumToStr(file.size) \o <<"_">> \o NumToStr(file.lastModified)

\* the callback processVideos maps over the files, run when the file's
\* thumbnail promise has resolved: favs is the favorites array at that time
ProcessVideo(file, favs) ==
  LET t == generateThumbnail(file)
  IN  [file |-> file,
       id |-> VideoId(file),
       thumbnail |-> t.thumbnail,
       meta |-> [duration |-> t.duration, resolution |-> t.resolution,
                 created |-> file.lastModified, size |-> file.size],
       isFavorite |-> VideoId(file) \in Range(favs)]

\* the extension filter of handleDrop
DropFilter(files) == SelectSeq(files, LAMBDA f : Extension(f.name) \in ValidExtensions)

\* readDirectory: one level, files only, whitelisted extensions only
ReadDirectory(h) ==
  LET kept == SelectSeq(DirEntries(h),
                LAMBDA e : e.kind = "file" /\ Extension(e.file.name) \in ValidExtensions)
  IN  [i \in 1..Len(kept) |-> kept[i].file]

(***************************************************************************)
(* Query engine: updateDisplay.                                            *)
(***************************************************************************)
All == <<"a", "l", "l">>

\* a 4k bucket that begins above 2160
MatchesQualityAbove(video, quality) ==
  IF quality = "all" THEN TRUE
  ELSE LET width == StrToNum(SplitFirst(video.meta.resolution, "x"))
           height == StrToNum(SplitPop(video.meta.resolution, "x"))
           maxDim == Max(width, height)
       IN  CASE quality = "4k" -> maxDim > 2160
             [] quality = "1080p" -> maxDim >= 1080 /\ maxDim < 2160
             [] quality = "720p" -> maxDim >= 720 /\ maxDim < 1080
             [] quality = "sd" -> maxDim < 720
             [] OTHER -> TRUE

\* the quality filter of updateDisplay
MatchesQuality(video, quality) ==
  IF quality = "all" THEN TRUE
  ELSE LET width == StrToNum(SplitFirst(video.meta.resolution, "x"))
           height == StrToNum(SplitPop(video.meta.resolution, "x"))
           maxDim == Max(width, height)
       IN  CASE quality = "4k" -> maxDim >= 2160
             [] quality = "1080p" -> maxDim >= 1080 /\ maxDim < 2160
             [] quality = "720p" -> maxDim >= 720 /\ maxDim < 1080
             [] quality = "sd" -> maxDim < 720
             [] OTHER -> TRUE

\* !activePlaylist || activePlaylist.videos.includes(video.id)
MatchesPlaylist(video, active) ==
  \A p \in active : \E vids \in p.videos : video.id \in Range(vids)

\* a filter that forgets the active playlist
MatchesFilterNoPlaylist(video, query, format, quality, favOnly, active) ==
  /\ Includes(ToLowerCase(video.file.name), query)
  /\ (format = All \/ Extension(video.file.name) = format)
  /\ (~favOnly \/ video.isFavorite)
  /\ MatchesQuality(video, quality)

\* the predicate of allVideos.filter in updateDisplay
MatchesFilter(video, query, format, quality, favOnly, active) ==
  /\ Includes(ToLowerCase(video.file.name), query)
  /\ (format = All \/ Extension(video.file.name) = format)
  /\ (~favOnly \/ video.isFavorite)
  /\ MatchesQuality(video, quality)
  /\ MatchesPlaylist(video, active)

\* collation order of the characters the model uses: punctuation, digits,
\* letters; a letter and its capital share a rank
Collation ==
  <<" ", "_", ".", "0", "1", "2", "3", "4", "5", "6", "7", "8", "9",
    "a", "b", "k", "m", "n", "p", "t", "v", "x">>

CharRank(c) == CHOOSE i \in 1..Len(Collation) : Collation[i] = LowerChar(c)

\* lexicographic order of two sequences of numbers: -1, 0 or 1
RECURSIVE LexCompare(_, _)
LexCompare(a, b) ==
  IF a = <<>> /\ b = <<>> THEN 0
  ELSE IF a = <<>> THEN -1
  ELSE IF b = <<>> THEN 1
  ELSE IF Head(a) < Head(b) THEN -1
  ELSE IF Head(a) > Head(b) THEN 1
  ELSE LexCompare(Tail(a), Tail(b))

\* a.localeCompare(b): letters first, case only to break a tie, lower case first
LocaleCompare(a, b) ==
  LET Ranks(s) == [i \in 1..Len(s) |-> CharRank(s[i])]
      Cases(s) == [i \in 1..Len(s) |-> IF LowerChar(s[i]) = s[i] THEN 0 ELSE 1]
      primary == LexCompare(Ranks(a), Ranks(b))
  IN  IF primary # 0 THEN primary ELSE LexCompare(Cases(a), Cases(b))

\* a comparator that puts the oldest first
CompareOldestFirst(a, b, sortKey) ==
  CASE sortKey = "name" -> LocaleCompare(a.file.name, b.file.name)
    [] sortKey = "date" -> a.meta.created - b.meta.created
    [] sortKey = "size" -> b.meta.size - a.meta.size
    [] sortKey = "duration" -> b.meta.duration - a.meta.duration
    [] OTHER -> 0

\* the comparator of filtered.sort
Compare(a, b, sortKey) ==
  CASE sortKey = "name" -> LocaleCompare(a.file.name, b.file.name)
    [] sortKey = "date" -> b.meta.created - a.meta.created
    [] sortKey = "size" -> b.meta.size - a.meta.size
    [] sortKey = "duration" -> b.meta.duration - a.meta.duration
    [] OTHER -> 0

\* Array.prototype.sort is stable: x goes behind every element it does not
\* precede
InsertSorted(sorted, x, sortKey) ==
  LET before == {i \in 1..Len(sorted) : Compare(sorted[i], x, sortKey) <= 0}
      k == IF before = {} THEN 0 ELSE CHOOSE i \in before : \A j \in before : j <= i
  IN  SubSeq(sorted, 1, k) \o <<x>> \o SubSeq(sorted, k + 1, Len(sorted))

RECURSIVE SortBy(_, _)
SortBy(videos, sortKey) ==
  IF videos = <<>> THEN <<>>
  ELSE InsertSorted(SortBy(SubSeq(videos, 1, Len(videos) - 1), sortKey),
                    videos[Len(videos)], sortKey)

\* updateDisplay: what displayVideos is handed
Project(videos, query, sortKey, format, quality, favOnly, active) ==
  SortBy(SelectSeq(videos,
           LAMBDA v : MatchesFilter(v, query, format, quality, favOnly, active)),
         sortKey)

(***************************************************************************)
(* Sidecar documents.  A playlist object has a name and, each optional,    *)
(* videos (a manual playlist), folderName, folderHandle and savedDate (a   *)
(* folder-backed one); oid is the identity of the object, which            *)
(* playlists[index] === activePlaylist compares.                           *)
(***************************************************************************)
IdA == VideoId(FileA)
IdB == VideoId(FileB)
\* an id of no file of the model
IdGone == <<"z", "_", "9", "_", "9">>

TagT == <<"t">>

\* what JSON.stringify leaves of a FileSystemDirectoryHandle: it has no own
\* enumerable property
EmptyObject == "{}"

\* JSON.parse(JSON.stringify(p)) of one playlist object
PlaylistToJSON(p) ==
  [name |-> p.name, videos |-> p.videos, folderName |-> p.folderName,
   folderHandle |-> IF p.folderHandle = {} THEN {} ELSE {EmptyObject},
   savedDate |-> p.savedDate]

\* JSON.stringify(playlists), as createPlaylist, deletePlaylist and import
\* store it
PlaylistsToJSON(ps) == [i \in 1..Len(ps) |-> PlaylistToJSON(ps[i])]

\* the document savePlaylist stores: name, folderName and savedDate of each
SavedPlaylistsJSON(ps) ==
  [i \in 1..Len(ps) |->
     [name |-> ps[i].name, videos |-> {}, folderName |-> ps[i].folderName,
      folderHandle |-> {}, savedDate |-> ps[i].savedDate]]

\* the object JSON.parse builds from a playlist of a document
PlaylistObject(json, oid) ==
  [oid |-> oid, name |-> json.name, videos |-> json.videos,
   folderName |-> json.folderName, folderHandle |-> json.folderHandle,
   savedDate |-> json.savedDate]

\* the n smallest object identities outside used, in order
RECURSIVE FreshOids(_, _)
FreshOids(n, used) ==
  IF n = 0 THEN <<>>
  ELSE LET o == CHOOSE k \in 1..(Cardinality(used) + 1) : k \notin used
       IN  <<o>> \o FreshOids(n - 1, used \cup {o})

\* downloadJSON({ favorites, playlists, videoTags }), read back by JSON.parse
ExportAll(favs, ps, tags) ==
  [malformed |-> FALSE, favorites |-> {favs}, playlists |-> {PlaylistsToJSON(ps)},
   videoTags |-> {tags}]

ManualJSON(name, vids) ==
  [name |-> name, videos |-> {vids}, folderName |-> {}, folderHandle |-> {},
   savedDate |-> {}]

\* the files the user can choose in the import dialog: text that is not
\* JSON, and documents holding some of the three keys
ImportDocs ==
  { [malformed |-> TRUE, favorites |-> {}, playlists |-> {}, videoTags |-> {}],
    [malformed |-> FALSE, favorites |-> {<<IdA>>}, playlists |-> {}, videoTags |-> {}],
    [malformed |-> FALSE, favorites |-> {}, playlists |-> {<<ManualJSON(<<"m">>, <<IdA>>)>>},
     videoTags |-> {}],
    [malformed |-> FALSE, favorites |-> {}, playlists |-> {}, videoTags |-> {IdGone :> <<TagT>>}],
    [malformed |-> FALSE, favorites |-> {<<IdGone, IdB, IdGone>>}, playlists |-> {<<>>},
     videoTags |-> {<<>>}] }

\* documents edited by hand or merged from two exports: an id listed twice
\* under favorites; a tag listed twice and an empty tag under videoTags
RepeatingDocs ==
  { [malformed |-> FALSE, favorites |-> {<<IdA, IdB, IdA>>}, playlists |-> {},
     videoTags |-> {}],
    [malformed |-> FALSE, favorites |-> {}, playlists |-> {},
     videoTags |-> {IdA :> <<TagT, <<>>, TagT>>}] }

(***************************************************************************)
(* State.                                                                  *)
(***************************************************************************)
VARIABLES
  allVideos,               \* the Catalog
  favorites,               \* array of ids
  playlists,               \* array of playlist objects
  videoTags,               \* object: id -> array of tags
  lsFavorites,             \* localStorage "favorites": {} or {document}
  lsPlaylists,             \* localStorage "playlists"
  lsVideoTags,             \* localStorage "videoTags"
  showFavoritesOnly,
  batchMode,
  selectedVideos,          \* Set of ids, in insertion order
  activePlaylist,          \* {} (null) or {playlist object}
  currentDirectoryHandle,  \* {} (null) or {handle}
  pending,                 \* the async handlers suspended at an await
  searchQuery,             \* the value of #search
  sortBy,                  \* #sort
  formatFilter,            \* #formatFilter
  qualityFilter,           \* #qualityFilter
  view,                    \* the entries displayVideos was last handed
  lastEvent,               \* history: the last step taken and the text of
                           \* the alert it showed, "" when it showed none
  handlesDB,               \* the IndexedDB store "handles": name -> handle
  restore,                 \* restoreFolderHandles: where it is suspended
  catalogStale,            \* history: the Catalog was last replaced by a build
                           \* that a later-started build had overtaken
  currentVideo,            \* {} (null), {the video object playVideo was handed}
                           \* or {{ id: [ids] }}, what batchAddTags builds
  tagsModal                \* the tags dialog is shown

vars ==
  <<allVideos, favorites, playlists, videoTags, lsFavorites, lsPlaylists,
    lsVideoTags, showFavoritesOnly, batchMode, selectedVideos, activePlaylist,
    currentDirectoryHandle, pending, searchQuery, sortBy, formatFilter,
    qualityFilter, view, lastEvent, handlesDB, restore, catalogStale,
    currentVideo, tagsModal>>

sidecarVars ==
  <<favorites, playlists, videoTags, lsFavorites, lsPlaylists, lsVideoTags>>

filterInputs == <<searchQuery, sortBy, formatFilter, qualityFilter>>

Event(op, alert) == [op |-> op, alert |-> alert]

\* updateDisplay() with the filter inputs as they stand
Display(videos, favOnly, active) ==
  Project(videos, ToLowerCase(searchQuery), sortBy, formatFilter, qualityFilter,
          favOnly, active)

\* what an earlier session left behind: the three localStorage documents
\* ({} for a key never written) and the handle store.  The second is what
\* savePlaylist leaves of one folder-backed playlist.
Persisted ==
  { [favorites |-> {}, playlists |-> {}, videoTags |-> {}, handles |-> <<>>],
    [favorites |-> {}, videoTags |-> {},
     playlists |-> {<< [name |-> <<"p">>, videos |-> {}, folderName |-> {"dir2"},
                       folderHandle |-> {}, savedDate |-> {1}] >>},
     handles |-> (<<"p">> :> "dir2")] }

\* JSON.parse(localStorage.getItem(key)) || fallback
ParsedOr(item, fallback) == IF item = {} THEN fallback ELSE CHOOSE v \in item : TRUE

\* JSON.parse of the playlists document: fresh objects
ParsedPlaylists(item) ==
  LET json == ParsedOr(item, <<>>)
  IN  [i \in 1..Len(json) |-> PlaylistObject(json[i], i)]

\* lines 2-14 over what is persisted, with restoreFolderHandles at rs and
\* the playlist objects as ps
StartupWith(persisted, ps, rs) ==
  /\ allVideos = <<>>
  /\ favorites = ParsedOr(persisted.favorites, <<>>)
  /\ playlists = ps
  /\ videoTags = ParsedOr(persisted.videoTags, <<>>)
  /\ lsFavorites = persisted.favorites
  /\ lsPlaylists = persisted.playlists
  /\ lsVideoTags = persisted.videoTags
  /\ handlesDB = persisted.handles
  /\ showFavoritesOnly = FALSE
  /\ batchMode = FALSE
  /\ selectedVideos = <<>>
  /\ activePlaylist = {}
  /\ currentDirectoryHandle = {}
  /\ pending = <<>>
  /\ searchQuery = <<>>
  /\ sortBy = "name"
  /\ formatFilter = All
  /\ qualityFilter = "all"
  /\ view = <<>>
  /\ lastEvent = Event("start", "")
  /\ restore = rs
  /\ catalogStale = FALSE
  /\ currentVideo = {}
  /\ tagsModal = FALSE

\* the top level of script.js has run: restoreFolderHandles is suspended at
\* its await of openHandlesDB
Startup(persisted) ==
  StartupWith(persisted, ParsedPlaylists(persisted.playlists),
              [phase |-> "open", i |-> 0, handle |-> {}])

Init == \E persisted \in Persisted : Startup(persisted)

\* the playlists once restoreFolderHandles has run to its end undisturbed
RestoredPlaylists(ps, db) ==
  [k \in 1..Len(ps) |->
     IF ps[k].folderName # {} /\ ps[k].folderHandle = {} /\ ps[k].name \in DOMAIN db
     THEN [ps[k] EXCEPT !.folderHandle = {db[ps[k].name]}] ELSE ps[k]]

\* the program at rest after start-up: restoreFolderHandles has finished
\* before the user's first command
Restored(persisted) ==
  StartupWith(persisted,
              RestoredPlaylists(ParsedPlaylists(persisted.playlists), persisted.handles),
              [phase |-> "done", i |-> 0, handle |-> {}])

FreshStore == [favorites |-> {}, playlists |-> {}, videoTags |-> {}, handles |-> <<>>]

(***************************************************************************)
(* Array helpers.                                                          *)
(***************************************************************************)
\* Array.prototype.indexOf, 1-based; 0 when x is no element
IndexOf(arr, x) ==
  LET at == {i \in 1..Len(arr) : arr[i] = x}
  IN  IF at = {} THEN 0 ELSE CHOOSE i \in at : \A j \in at : i <= j

\* arr.splice(i, 1)
RemoveAt(arr, i) == SubSeq(arr, 1, i - 1) \o SubSeq(arr, i + 1, Len(arr))

Ids(videos) == {videos[i].id : i \in 1..Len(videos)}

(***************************************************************************)
(* Catalog builds: handleDrop, the selectFolder handler and the folder     *)
(* branch of loadPlaylist each await processVideos(files) and assign the   *)
(* result to allVideos.  A suspended handler is a record of pending; the   *)
(* builds among them stand in the order their processVideos calls began.   *)
(***************************************************************************)
Handler(kind, phase, files, playlist, name) ==
  [kind |-> kind, phase |-> phase, files |-> files, results |-> <<>>,
   playlist |-> playlist, name |-> name, stale |-> FALSE]

Settled(h) == DOMAIN h.results = 1..Len(h.files)

\* a build that leaves out the files whose extraction failed
BuildResultDropsFailed(h) ==
  SelectSeq([i \in 1..Len(h.files) |-> h.results[i]], LAMBDA e : e.thumbnail # "")

\* what Promise.all resolves to: the entries in the order of the files
BuildResult(h) == [i \in 1..Len(h.files) |-> h.results[i]]

\* a build that adds to the Catalog instead of replacing it
InstallCatalogAppend(old, result) == old \o result

\* allVideos = await processVideos(files)
InstallCatalog(old, result) == result

\* pending without the handler at b; the builds that began before it have
\* been overtaken
Overtake(b) ==
  LET marked == [j \in 1..Len(pending) |->
                   IF j < b /\ pending[j].phase = "extract"
                   THEN [pending[j] EXCEPT !.stale = TRUE] ELSE pending[j]]
  IN  RemoveAt(marked, b)

\* handleDrop up to its await
HandleDrop(batch) ==
  LET files == DropFilter(batch)
  IN  /\ Len(pending) < MaxInFlight
      /\ pending' = IF Len(files) > 0
                    THEN Append(pending, Handler("drop", "extract", files, {}, <<>>))
                    ELSE pending
      /\ lastEvent' = Event("HandleDrop", "")
      /\ UNCHANGED <<allVideos, sidecarVars, showFavoritesOnly, batchMode,
                     selectedVideos, activePlaylist, currentDirectoryHandle,
                     filterInputs, handlesDB, restore, currentVideo, tagsModal, view, catalogStale>>

\* the selectFolder handler from the picker's answer up to the await of
\* processVideos (nothing the program holds changes while readDirectory runs)
SelectFolder(h) ==
  /\ Len(pending) < MaxInFlight
  /\ currentDirectoryHandle' = {h}
  /\ pending' = Append(pending, Handler("folder", "extract", ReadDirectory(h), {}, <<>>))
  /\ lastEvent' = Event("SelectFolder", "")
  /\ UNCHANGED <<allVideos, sidecarVars, showFavoritesOnly, batchMode,
                 selectedVideos, activePlaylist, filterInputs, handlesDB, restore, currentVideo, tagsModal, view, catalogStale>>

\* onloadedmetadata assigns currentTime and only onseeked or onerror resolve
\* the promise.  A file that carries the field seeked has duration 0, the
\* assignment leaves the element where it is, and the field says whether
\* the platform fires seeked all the same
SeekedFires(file) == IF "seeked" \in DOMAIN file THEN file.seeked ELSE TRUE

\* the promise of generateThumbnail(file) is resolved at some time
Resolves(file) == ~file.decodes \/ SeekedFires(file)

\* an extraction that publishes its entry at once
ExtractFilePublishing(b, i) ==
  /\ b \in 1..Len(pending)
  /\ pending[b].phase = "extract"
  /\ i \in 1..Len(pending[b].files)
  /\ i \notin DOMAIN pending[b].results
  /\ Resolves(pending[b].files[i])
  /\ pending' = [pending EXCEPT ![b].results =
                   (i :> ProcessVideo(pending[b].files[i], favorites)) @@ @]
  /\ allVideos' = Append(allVideos, ProcessVideo(pending[b].files[i], favorites))
  /\ lastEvent' = Event("ExtractFile", "")
  /\ UNCHANGED <<sidecarVars, showFavoritesOnly, batchMode,
                 selectedVideos, activePlaylist, currentDirectoryHandle,
                 filterInputs, handlesDB, restore, currentVideo, tagsModal, view, catalogStale>>

\* one file's generateThumbnail promise resolves and the callback of
\* processVideos builds the entry
ExtractFile(b, i) ==
  /\ b \in 1..Len(pending)
  /\ pending[b].phase = "extract"
  /\ i \in 1..Len(pending[b].files)
  /\ i \notin DOMAIN pending[b].results
  /\ Resolves(pending[b].files[i])
  /\ pending' = [pending EXCEPT ![b].results =
                   (i :> ProcessVideo(pending[b].files[i], favorites)) @@ @]
  /\ lastEvent' = Event("ExtractFile", "")
  /\ UNCHANGED <<allVideos, sidecarVars, showFavoritesOnly, batchMode,
                 selectedVideos, activePlaylist, currentDirectoryHandle,
                 filterInputs, handlesDB, restore, currentVideo, tagsModal, view, catalogStale>>

InstallOp(kind) ==
  CASE kind = "drop" -> "InstallBuild(drop)"
    [] kind = "folder" -> "InstallBuild(folder)"
    [] OTHER -> "InstallBuild(playlist)"

\* an install that drops the tags of the ids the new Catalog does not hold
InstallBuildPruning(b) ==
  /\ b \in 1..Len(pending)
  /\ pending[b].phase = "extract"
  /\ Settled(pending[b])
  /\ allVideos' = InstallCatalog(allVideos, BuildResult(pending[b]))
  /\ videoTags' = [id \in DOMAIN videoTags \cap Ids(allVideos') |-> videoTags[id]]
  /\ lsVideoTags' = {videoTags'}
  /\ IF pending[b].kind = "playlist"
     THEN /\ currentDirectoryHandle' =
               UNION {p.folderHandle : p \in pending[b].playlist}
          /\ activePlaylist' = {}
          /\ showFavoritesOnly' = FALSE
     ELSE UNCHANGED <<currentDirectoryHandle, activePlaylist, showFavoritesOnly>>
  /\ view' = Display(allVideos', showFavoritesOnly', activePlaylist')
  /\ pending' = Overtake(b)
  /\ catalogStale' = IF pending[b].stale
                     THEN catalogStale \/ allVideos' # allVideos
                     ELSE FALSE
  /\ lastEvent' = Event(InstallOp(pending[b].kind), "")
  /\ UNCHANGED <<favorites, playlists, lsFavorites, lsPlaylists, batchMode,
                 selectedVideos, filterInputs, handlesDB, restore, currentVideo,
                 tagsModal>>

\* Promise.all has resolved: the handler resumes behind its await
InstallBuild(b) ==
  /\ b \in 1..Len(pending)
  /\ pending[b].phase = "extract"
  /\ Settled(pending[b])
  /\ allVideos' = InstallCatalog(allVideos, BuildResult(pending[b]))
  /\ IF pending[b].kind = "playlist"
     THEN /\ currentDirectoryHandle' =
               UNION {p.folderHandle : p \in pending[b].playlist}
          /\ activePlaylist' = {}
          /\ showFavoritesOnly' = FALSE
     ELSE UNCHANGED <<currentDirectoryHandle, activePlaylist, showFavoritesOnly>>
  /\ view' = Display(allVideos', showFavoritesOnly', activePlaylist')
  /\ pending' = Overtake(b)
  /\ catalogStale' = IF pending[b].stale
                     THEN catalogStale \/ allVideos' # allVideos
                     ELSE FALSE
  /\ lastEvent' = Event(InstallOp(pending[b].kind), "")
  /\ UNCHANGED <<sidecarVars, batchMode, selectedVideos, filterInputs, handlesDB, restore, currentVideo, tagsModal>>

(***************************************************************************)
(* Favorites.                                                              *)
(***************************************************************************)
\* toggleFavorite, lines 303-308: the favorites array
ToggleFavoriteStore(favs, videoId) ==
  LET index == IndexOf(favs, videoId)
  IN  IF index > 0 THEN RemoveAt(favs, index) ELSE Append(favs, videoId)

\* toggleFavorite, lines 312-313: the entry allVideos.find returns is flipped
ToggleFavoriteMirror(videos, videoId) ==
  LET at == {i \in 1..Len(videos) : videos[i].id = videoId}
  IN  IF at = {} THEN videos
      ELSE LET first == CHOOSE i \in at : \A j \in at : i <= j
           IN  [videos EXCEPT ![first].isFavorite = ~@]

\* the favorite button of a displayed card
ToggleFavorite(videoId) ==
  /\ videoId \in Ids(view)
  /\ favorites' = ToggleFavoriteStore(favorites, videoId)
  /\ lsFavorites' = {favorites'}
  /\ allVideos' = ToggleFavoriteMirror(allVideos, videoId)
  /\ view' = Display(allVideos', showFavoritesOnly, activePlaylist)
  /\ lastEvent' = Event("ToggleFavorite", "")
  /\ UNCHANGED <<playlists, videoTags, lsPlaylists, lsVideoTags, showFavoritesOnly,
                 batchMode, selectedVideos, activePlaylist, currentDirectoryHandle,
                 pending, filterInputs, handlesDB, restore, currentVideo, tagsModal, catalogStale>>

\* the favoritesToggle button
FavoritesToggle ==
  /\ showFavoritesOnly' = ~showFavoritesOnly
  /\ view' = Display(allVideos, showFavoritesOnly', activePlaylist)
  /\ lastEvent' = Event("FavoritesToggle", "")
  /\ UNCHANGED <<allVideos, sidecarVars, batchMode, selectedVideos, activePlaylist,
                 currentDirectoryHandle, pending, filterInputs, handlesDB, restore, currentVideo, tagsModal, catalogStale>>

(***************************************************************************)
(* The filter inputs.  script.js registers updateDisplay for the input     *)
(* event of #search and the change events of #sort and #formatFilter; it   *)
(* registers nothing for #qualityFilter, whose new value updateDisplay     *)
(* reads the next time something calls it.                                 *)
(***************************************************************************)
SearchInputs == { <<>>, <<"A">>, <<"b", ".">> }
SortKeys == {"name", "date", "size", "duration"}
Formats == { All, <<"m", "p", "4">>, <<"m", "k", "v">> }
Qualities == {"all", "4k", "1080p", "720p", "sd"}

SearchInput(text) ==
  /\ searchQuery' = text
  /\ view' = Project(allVideos, ToLowerCase(text), sortBy, formatFilter, qualityFilter,
                     showFavoritesOnly, activePlaylist)
  /\ lastEvent' = Event("SearchInput", "")
  /\ UNCHANGED <<allVideos, sidecarVars, showFavoritesOnly, batchMode, selectedVideos,
                 activePlaylist, currentDirectoryHandle, pending, sortBy, formatFilter,
                 qualityFilter, handlesDB, restore, currentVideo, tagsModal, catalogStale>>

SortChange(key) ==
  /\ sortBy' = key
  /\ view' = Project(allVideos, ToLowerCase(searchQuery), key, formatFilter,
                     qualityFilter, showFavoritesOnly, activePlaylist)
  /\ lastEvent' = Event("SortChange", "")
  /\ UNCHANGED <<allVideos, sidecarVars, showFavoritesOnly, batchMode, selectedVideos,
                 activePlaylist, currentDirectoryHandle, pending, searchQuery,
                 formatFilter, qualityFilter, handlesDB, restore, currentVideo, tagsModal, catalogStale>>

FormatChange(format) ==
  /\ formatFilter' = format
  /\ view' = Project(allVideos, ToLowerCase(searchQuery), sortBy, format,
                     qualityFilter, showFavoritesOnly, activePlaylist)
  /\ lastEvent' = Event("FormatChange", "")
  /\ UNCHANGED <<allVideos, sidecarVars, showFavoritesOnly, batchMode, selectedVideos,
                 activePlaylist, currentDirectoryHandle, pending, searchQuery, sortBy,
                 qualityFilter, handlesDB, restore, currentVideo, tagsModal, catalogStale>>

\* the user picks a quality: no listener runs
QualityChange(quality) ==
  /\ qualityFilter' = quality
  /\ lastEvent' = Event("QualityChange", "")
  /\ UNCHANGED <<allVideos, sidecarVars, showFavoritesOnly, batchMode, selectedVideos,
                 activePlaylist, currentDirectoryHandle, pending, searchQuery, sortBy,
                 formatFilter, handlesDB, restore, currentVideo, tagsModal, view, catalogStale>>

(***************************************************************************)
(* Batch operations.  The batch bar is shown only in batch mode.           *)
(***************************************************************************)
\* allVideos.forEach((v) => (v.isFavorite = favorites.includes(v.id)))
SyncFavorites(videos, favs) ==
  [i \in 1..Len(videos) |-> [videos[i] EXCEPT !.isFavorite = videos[i].id \in Range(favs)]]

\* the loop of batchAddToFavorites over the selection
RECURSIVE AddAllFavorites(_, _)
AddAllFavorites(favs, ids) ==
  IF ids = <<>> THEN favs
  ELSE AddAllFavorites(IF Head(ids) \in Range(favs) THEN favs
                       ELSE Append(favs, Head(ids)),
                       Tail(ids))

\* the loop of batchRemoveFromFavorites: one occurrence of each id goes
RECURSIVE RemoveAllFavorites(_, _)
RemoveAllFavorites(favs, ids) ==
  IF ids = <<>> THEN favs
  ELSE LET index == IndexOf(favs, Head(ids))
       IN  RemoveAllFavorites(IF index > 0 THEN RemoveAt(favs, index) ELSE favs,
                              Tail(ids))

\* allVideos.forEach((v) => selectedVideos.add(v.id))
RECURSIVE SelectAll(_, _)
SelectAll(selected, videos) ==
  IF videos = <<>> THEN selected
  ELSE SelectAll(IF Head(videos).id \in Range(selected) THEN selected
                 ELSE Append(selected, Head(videos).id),
                 Tail(videos))

\* a delete that stops at the first selected entry
RemoveFirstSelected(videos, selected) ==
  LET at == {i \in 1..Len(videos) : videos[i].id \in Range(selected)}
  IN  IF at = {} THEN videos
      ELSE RemoveAt(videos, CHOOSE i \in at : \A j \in at : i <= j)

\* allVideos.filter((v) => !selectedVideos.has(v.id))
RemoveSelected(videos, selected) ==
  SelectSeq(videos, LAMBDA v : v.id \notin Range(selected))

BatchBtn ==
  /\ batchMode' = ~batchMode
  /\ selectedVideos' = <<>>
  /\ view' = Display(allVideos, showFavoritesOnly, activePlaylist)
  /\ lastEvent' = Event("BatchBtn", "")
  /\ UNCHANGED <<allVideos, sidecarVars, showFavoritesOnly, activePlaylist,
                 currentDirectoryHandle, pending, filterInputs, handlesDB, restore, currentVideo, tagsModal, catalogStale>>

\* a cancel that leaves the selection
BatchCancelKeepsSelection ==
  /\ batchMode
  /\ batchMode' = FALSE
  /\ view' = Display(allVideos, showFavoritesOnly, activePlaylist)
  /\ lastEvent' = Event("BatchCancel", "")
  /\ UNCHANGED <<allVideos, sidecarVars, showFavoritesOnly, activePlaylist,
                 selectedVideos, currentDirectoryHandle, pending, filterInputs,
                 handlesDB, restore, currentVideo, tagsModal, catalogStale>>

BatchCancel ==
  /\ batchMode
  /\ batchMode' = FALSE
  /\ selectedVideos' = <<>>
  /\ view' = Display(allVideos, showFavoritesOnly, activePlaylist)
  /\ lastEvent' = Event("BatchCancel", "")
  /\ UNCHANGED <<allVideos, sidecarVars, showFavoritesOnly, activePlaylist,
                 currentDirectoryHandle, pending, filterInputs, handlesDB, restore, currentVideo, tagsModal, catalogStale>>

BatchSelectAll ==
  /\ batchMode
  /\ selectedVideos' = SelectAll(selectedVideos, allVideos)
  /\ view' = Display(allVideos, showFavoritesOnly, activePlaylist)
  /\ lastEvent' = Event("BatchSelectAll", "")
  /\ UNCHANGED <<allVideos, sidecarVars, showFavoritesOnly, batchMode, activePlaylist,
                 currentDirectoryHandle, pending, filterInputs, handlesDB, restore, currentVideo, tagsModal, catalogStale>>

BatchDeselectAll ==
  /\ batchMode
  /\ selectedVideos' = <<>>
  /\ view' = Display(allVideos, showFavoritesOnly, activePlaylist)
  /\ lastEvent' = Event("BatchDeselectAll", "")
  /\ UNCHANGED <<allVideos, sidecarVars, showFavoritesOnly, batchMode, activePlaylist,
                 currentDirectoryHandle, pending, filterInputs, handlesDB, restore, currentVideo, tagsModal, catalogStale>>

BatchAddToFavorites ==
  /\ batchMode
  /\ favorites' = AddAllFavorites(favorites, selectedVideos)
  /\ lsFavorites' = {favorites'}
  /\ allVideos' = SyncFavorites(allVideos, favorites')
  /\ view' = Display(allVideos', showFavoritesOnly, activePlaylist)
  /\ lastEvent' = Event("BatchAddToFavorites", "")
  /\ UNCHANGED <<playlists, videoTags, lsPlaylists, lsVideoTags, showFavoritesOnly,
                 batchMode, selectedVideos, activePlaylist, currentDirectoryHandle,
                 pending, filterInputs, handlesDB, restore, currentVideo, tagsModal, catalogStale>>

BatchRemoveFromFavorites ==
  /\ batchMode
  /\ favorites' = RemoveAllFavorites(favorites, selectedVideos)
  /\ lsFavorites' = {favorites'}
  /\ allVideos' = SyncFavorites(allVideos, favorites')
  /\ view' = Display(allVideos', showFavoritesOnly, activePlaylist)
  /\ lastEvent' = Event("BatchRemoveFromFavorites", "")
  /\ UNCHANGED <<playlists, videoTags, lsPlaylists, lsVideoTags, showFavoritesOnly,
                 batchMode, selectedVideos, activePlaylist, currentDirectoryHandle,
                 pending, filterInputs, handlesDB, restore, currentVideo, tagsModal, catalogStale>>

\* the batchDelete handler; confirmed is the answer to confirm()
BatchDelete(confirmed) ==
  /\ batchMode
  /\ IF Len(selectedVideos) # 0 /\ confirmed
     THEN /\ allVideos' = RemoveSelected(allVideos, selectedVideos)
          /\ selectedVideos' = <<>>
          /\ view' = Display(allVideos', showFavoritesOnly, activePlaylist)
          /\ lastEvent' = Event("BatchDelete(deleted)", "")
     ELSE /\ lastEvent' = Event("BatchDelete", "")
          /\ UNCHANGED <<allVideos, selectedVideos, view>>
  /\ UNCHANGED <<sidecarVars, showFavoritesOnly, batchMode, activePlaylist,
                 currentDirectoryHandle, pending, filterInputs, handlesDB, restore, currentVideo, tagsModal, catalogStale>>

\* the batchAddTags handler: the selection is copied into currentVideo
BatchAddTags ==
  /\ batchMode
  /\ IF Len(selectedVideos) = 0
     THEN /\ lastEvent' = Event("BatchAddTags", "Please select videos first")
          /\ UNCHANGED <<currentVideo, tagsModal>>
     ELSE /\ currentVideo' = {[kind |-> "batch", id |-> selectedVideos]}
          /\ tagsModal' = TRUE
          /\ lastEvent' = Event("BatchAddTags(opened)", "")
  /\ UNCHANGED <<allVideos, sidecarVars, showFavoritesOnly, batchMode, selectedVideos,
                 activePlaylist, currentDirectoryHandle, pending, filterInputs,
                 handlesDB, restore, view, catalogStale>>

(***************************************************************************)
(* The player and the tags dialog.  currentVideo is what playVideo and     *)
(* batchAddTags leave for the addTagsBtn handler.                          *)
(***************************************************************************)
\* playVideo(video), from the thumbnail of the card at position i of the view
PlayVideo(i) ==
  /\ i \in 1..Len(view)
  /\ currentVideo' = {[kind |-> "video", id |-> view[i].id]}
  /\ lastEvent' = Event("PlayVideo", "")
  /\ UNCHANGED <<allVideos, sidecarVars, showFavoritesOnly, batchMode, selectedVideos,
                 activePlaylist, currentDirectoryHandle, pending, filterInputs,
                 handlesDB, restore, view, catalogStale, tagsModal>>

\* the player is shown
Playing == \E v \in currentVideo : v.kind = "video"

\* closeVideoModal
CloseVideoModal ==
  /\ Playing
  /\ currentVideo' = {}
  /\ lastEvent' = Event("CloseVideoModal", "")
  /\ UNCHANGED <<allVideos, sidecarVars, showFavoritesOnly, batchMode, selectedVideos,
                 activePlaylist, currentDirectoryHandle, pending, filterInputs,
                 handlesDB, restore, view, catalogStale, tagsModal>>

\* the favoriteBtn of the player: toggleFavorite(currentVideo.id)
FavoriteBtn ==
  /\ Playing
  /\ \E v \in currentVideo :
       /\ favorites' = ToggleFavoriteStore(favorites, v.id)
       /\ allVideos' = ToggleFavoriteMirror(allVideos, v.id)
  /\ lsFavorites' = {favorites'}
  /\ view' = Display(allVideos', showFavoritesOnly, activePlaylist)
  /\ lastEvent' = Event("FavoriteBtn", "")
  /\ UNCHANGED <<playlists, videoTags, lsPlaylists, lsVideoTags, showFavoritesOnly,
                 batchMode, selectedVideos, activePlaylist, currentDirectoryHandle,
                 pending, filterInputs, handlesDB, restore, catalogStale,
                 currentVideo, tagsModal>>

\* the tagsBtn handler: the dialog opens, currentVideo is left as it is
TagsBtn ==
  /\ tagsModal' = TRUE
  /\ lastEvent' = Event("TagsBtn", "")
  /\ UNCHANGED <<allVideos, sidecarVars, showFavoritesOnly, batchMode, selectedVideos,
                 activePlaylist, currentDirectoryHandle, pending, filterInputs,
                 handlesDB, restore, view, catalogStale, currentVideo>>

\* the close button of the dialog, or a click beside it
CloseTagsModal ==
  /\ tagsModal
  /\ tagsModal' = FALSE
  /\ lastEvent' = Event("CloseTagsModal", "")
  /\ UNCHANGED <<allVideos, sidecarVars, showFavoritesOnly, batchMode, selectedVideos,
                 activePlaylist, currentDirectoryHandle, pending, filterInputs,
                 handlesDB, restore, view, catalogStale, currentVideo>>

\* what the user has typed into #tagInput
TagInputs ==
  { <<>>, <<" ", ",">>, <<"t">>, <<" ", "t", ",", "T", ",", ",", "t", " ">> }

\* s.split(sep)
RECURSIVE Split(_, _)
Split(s, sep) ==
  LET at == {i \in 1..Len(s) : s[i] = sep}
  IN  IF at = {} THEN <<s>>
      ELSE LET first == CHOOSE i \in at : \A j \in at : i <= j
           IN  <<SubSeq(s, 1, first - 1)>> \o Split(SubSeq(s, first + 1, Len(s)), sep)

\* input.value.split(",").map((t) => t.trim()).filter((t) => t)
ParseTags(input) ==
  LET pieces == Split(input, ",")
      trimmed == [i \in 1..Len(pieces) |-> Trim(pieces[i])]
  IN  SelectSeq(trimmed, LAMBDA t : t # <<>>)

\* tags.forEach((tag) => { if (!list.includes(tag)) list.push(tag) })
RECURSIVE PushTags(_, _)
PushTags(list, tags) ==
  IF tags = <<>> THEN list
  ELSE PushTags(IF Head(tags) \in Range(list) THEN list ELSE Append(list, Head(tags)),
                Tail(tags))

\* videoTags[id], [] when the map has no such key
TagsOf(map, id) == IF id \in DOMAIN map THEN map[id] ELSE <<>>

\* the loop of addTagsBtn over the ids
RECURSIVE AddTagsTo(_, _, _)
AddTagsTo(map, ids, tags) ==
  IF ids = <<>> THEN map
  ELSE AddTagsTo((Head(ids) :> PushTags(TagsOf(map, Head(ids)), tags)) @@ map,
                 Tail(ids), tags)

\* the ids the addTagsBtn handler tags: the array of a batch, or the one id
TaggedIds(v) == IF v.kind = "batch" THEN v.id ELSE <<v.id>>

\* the addTagsBtn handler of the dialog; reading currentVideo.id of null
\* throws, which ends the handler
AddTagsBtn(input) ==
  LET tags == ParseTags(input)
  IN  /\ tagsModal
      /\ IF tags = <<>>
         THEN /\ lastEvent' = Event("AddTagsBtn", "")
              /\ UNCHANGED <<videoTags, lsVideoTags, tagsModal, view>>
         ELSE IF currentVideo = {}
         THEN /\ lastEvent' = Event("AddTagsBtn(threw)", "")
              /\ UNCHANGED <<videoTags, lsVideoTags, tagsModal, view>>
         ELSE /\ \E v \in currentVideo :
                   videoTags' = AddTagsTo(videoTags, TaggedIds(v), tags)
              /\ lsVideoTags' = {videoTags'}
              /\ tagsModal' = FALSE
              /\ view' = Display(allVideos, showFavoritesOnly, activePlaylist)
              /\ lastEvent' = Event("AddTagsBtn(added)", "")
      /\ UNCHANGED <<allVideos, favorites, playlists, lsFavorites, lsPlaylists,
                     showFavoritesOnly, batchMode, selectedVideos, activePlaylist,
                     currentDirectoryHandle, pending, filterInputs, handlesDB,
                     restore, catalogStale, currentVideo>>

(***************************************************************************)
(* Playlists.                                                              *)
(***************************************************************************)
\* the playlist name inputs the user types
NameInputs == { <<>>, <<" ">>, <<"p">>, <<" ", "p", " ">> }

\* the identities of the playlist objects some variable still refers to
LiveOids ==
  {playlists[i].oid : i \in 1..Len(playlists)}
    \cup {p.oid : p \in activePlaylist}
    \cup UNION {{p.oid : p \in pending[j].playlist} : j \in 1..Len(pending)}

\* { name, videos: [] }
NewManualPlaylist(name, oid) ==
  [oid |-> oid, name |-> name, videos |-> {<<>>}, folderName |-> {},
   folderHandle |-> {}, savedDate |-> {}]

\* { name, folderName, folderHandle: currentDirectoryHandle, savedDate: Date.now() }
NewFolderPlaylist(name, handle, now, oid) ==
  [oid |-> oid, name |-> name, videos |-> {}, folderName |-> handle,
   folderHandle |-> handle, savedDate |-> {now}]

\* the createPlaylist handler
CreatePlaylist(input) ==
  LET name == Trim(input)
  IN  /\ IF name = <<>>
         THEN /\ lastEvent' = Event("CreatePlaylist", "Please enter a playlist name")
              /\ UNCHANGED <<playlists, lsPlaylists>>
         ELSE /\ Len(playlists) < MaxPlaylists
              /\ playlists' = Append(playlists,
                                NewManualPlaylist(name, FreshOids(1, LiveOids)[1]))
              /\ lsPlaylists' = {PlaylistsToJSON(playlists')}
              /\ lastEvent' = Event("CreatePlaylist", "")
      /\ UNCHANGED <<allVideos, favorites, videoTags, lsFavorites, lsVideoTags,
                     showFavoritesOnly, batchMode, selectedVideos, activePlaylist,
                     currentDirectoryHandle, pending, filterInputs, handlesDB, restore, currentVideo, tagsModal, view,
                     catalogStale>>

\* the savePlaylist handler up to its first await (queryPermission)
SavePlaylistStart(input) ==
  LET name == Trim(input)
  IN  /\ IF name = <<>>
         THEN /\ lastEvent' = Event("SavePlaylistStart", "Please enter a playlist name")
              /\ UNCHANGED pending
         ELSE IF currentDirectoryHandle = {}
         THEN /\ lastEvent' = Event("SavePlaylistStart", "Please select a folder first!")
              /\ UNCHANGED pending
         ELSE /\ Len(pending) < MaxInFlight
              /\ pending' = Append(pending, Handler("save", "perm", <<>>, {}, name))
              /\ lastEvent' = Event("SavePlaylistStart", "")
      /\ UNCHANGED <<allVideos, sidecarVars, showFavoritesOnly, batchMode,
                     selectedVideos, activePlaylist, currentDirectoryHandle,
                     filterInputs, handlesDB, restore, currentVideo, tagsModal, view, catalogStale>>

\* savePlaylist behind queryPermission/requestPermission: denied, or the new
\* playlist is pushed and the handler waits for the handle store
SavePlaylistPermission(b, granted, now) ==
  /\ b \in 1..Len(pending)
  /\ pending[b].kind = "save"
  /\ pending[b].phase = "perm"
  /\ IF granted
     THEN /\ Len(playlists) < MaxPlaylists
          /\ playlists' = Append(playlists,
                            NewFolderPlaylist(pending[b].name, currentDirectoryHandle,
                                              now, FreshOids(1, LiveOids)[1]))
          /\ pending' = [pending EXCEPT ![b].phase = "db"]
          /\ lastEvent' = Event("SavePlaylistPermission", "")
     ELSE /\ pending' = RemoveAt(pending, b)
          /\ lastEvent' = Event("SavePlaylistPermission", "Permission denied to access folder")
          /\ UNCHANGED playlists
  /\ UNCHANGED <<allVideos, favorites, videoTags, lsFavorites, lsPlaylists,
                 lsVideoTags, showFavoritesOnly, batchMode, selectedVideos,
                 activePlaylist, currentDirectoryHandle, filterInputs, handlesDB, restore, currentVideo, tagsModal, view,
                 catalogStale>>

\* store.put({ name, handle })
PutHandle(db, name, handle) == (name :> handle) @@ db

\* savePlaylist behind openHandlesDB: saveHandleToDB is called with the
\* current directory handle of that moment
SavePlaylistPut(b) ==
  /\ b \in 1..Len(pending)
  /\ pending[b].kind = "save"
  /\ pending[b].phase = "db"
  /\ handlesDB' = PutHandle(handlesDB, pending[b].name,
                            CHOOSE h \in currentDirectoryHandle : TRUE)
  /\ pending' = [pending EXCEPT ![b].phase = "put"]
  /\ lastEvent' = Event("SavePlaylistPut", "")
  /\ UNCHANGED <<allVideos, sidecarVars, showFavoritesOnly, batchMode,
                 selectedVideos, activePlaylist, currentDirectoryHandle,
                 filterInputs, restore, currentVideo, tagsModal, view, catalogStale>>

\* savePlaylist behind saveHandleToDB: the playlists document is written
SavePlaylistStore(b) ==
  /\ b \in 1..Len(pending)
  /\ pending[b].kind = "save"
  /\ pending[b].phase = "put"
  /\ lsPlaylists' = {SavedPlaylistsJSON(playlists)}
  /\ pending' = RemoveAt(pending, b)
  /\ lastEvent' = Event("SavePlaylistStore", "Saved playlist")
  /\ UNCHANGED <<allVideos, favorites, playlists, videoTags, lsFavorites,
                 lsVideoTags, showFavoritesOnly, batchMode, selectedVideos,
                 activePlaylist, currentDirectoryHandle, filterInputs, handlesDB,
                 restore, currentVideo, tagsModal, view, catalogStale>>

\* a load of a missing playlist that resets the filters before it reports
LoadPlaylistMissingResets(index) ==
  /\ index >= Len(playlists)
  /\ activePlaylist' = {}
  /\ showFavoritesOnly' = FALSE
  /\ view' = Display(allVideos, showFavoritesOnly', activePlaylist')
  /\ lastEvent' = Event("LoadPlaylist", "Playlist not found!")
  /\ UNCHANGED <<allVideos, sidecarVars, batchMode, selectedVideos,
                 currentDirectoryHandle, pending, filterInputs, handlesDB, restore,
                 currentVideo, tagsModal, catalogStale>>

\* window.loadPlaylist(index) up to its first await; index is the 0-based
\* index a Load button was rendered with
LoadPlaylist(index) ==
  IF index >= Len(playlists)
  THEN /\ lastEvent' = Event("LoadPlaylist", "Playlist not found!")
       /\ UNCHANGED <<allVideos, sidecarVars, showFavoritesOnly, batchMode,
                      selectedVideos, activePlaylist, currentDirectoryHandle,
                      pending, filterInputs, handlesDB, restore, currentVideo, tagsModal, view, catalogStale>>
  ELSE LET playlist == playlists[index + 1]
       IN  IF playlist.folderHandle # {}
           THEN /\ IF playlist.folderHandle = {EmptyObject}
                   \* queryPermission is not a function: the catch block
                   THEN /\ lastEvent' = Event("LoadPlaylist", "Failed to load playlist")
                        /\ UNCHANGED pending
                   ELSE /\ Len(pending) < MaxInFlight
                        /\ pending' = Append(pending,
                                        Handler("playlist", "perm", <<>>, {playlist}, <<>>))
                        /\ lastEvent' = Event("LoadPlaylist(folder)", "")
                /\ UNCHANGED <<allVideos, sidecarVars, showFavoritesOnly, batchMode,
                               selectedVideos, activePlaylist, currentDirectoryHandle,
                               filterInputs, handlesDB, restore, currentVideo, tagsModal, view, catalogStale>>
           ELSE IF playlist.videos # {}
           THEN /\ activePlaylist' = {playlist}
                /\ showFavoritesOnly' = FALSE
                /\ view' = Display(allVideos, showFavoritesOnly', activePlaylist')
                /\ lastEvent' = Event("LoadPlaylist(manual)", "")
                /\ UNCHANGED <<allVideos, sidecarVars, batchMode, selectedVideos,
                               currentDirectoryHandle, pending, filterInputs, handlesDB, restore, currentVideo, tagsModal,
                               catalogStale>>
           ELSE /\ lastEvent' = Event("LoadPlaylist", "")
                /\ UNCHANGED <<allVideos, sidecarVars, showFavoritesOnly, batchMode,
                               selectedVideos, activePlaylist, currentDirectoryHandle,
                               pending, filterInputs, handlesDB, restore, currentVideo, tagsModal, view, catalogStale>>

\* a load that resets the view state before it knows the permission
LoadPlaylistPermissionEager(b, answer) ==
  /\ b \in 1..Len(pending)
  /\ pending[b].kind = "playlist"
  /\ pending[b].phase = "perm"
  /\ activePlaylist' = {}
  /\ showFavoritesOnly' = FALSE
  /\ CASE answer = "granted" ->
            /\ pending' = Append(RemoveAt(pending, b),
                 [pending[b] EXCEPT
                    !.phase = "extract",
                    !.files = ReadDirectory(CHOOSE h \in UNION {p.folderHandle :
                                              p \in pending[b].playlist} : TRUE)])
            /\ lastEvent' = Event("LoadPlaylistPermission", "")
       [] answer = "denied" ->
            /\ pending' = RemoveAt(pending, b)
            /\ lastEvent' = Event("LoadPlaylistPermission", "Permission denied. Please re-add this playlist.")
       [] OTHER ->
            /\ pending' = RemoveAt(pending, b)
            /\ lastEvent' = Event("LoadPlaylistPermission", "Failed to load playlist")
  /\ UNCHANGED <<allVideos, sidecarVars, batchMode, selectedVideos,
                 currentDirectoryHandle, filterInputs, handlesDB, restore, currentVideo, tagsModal, view,
                 catalogStale>>

\* loadPlaylist behind queryPermission/requestPermission and readDirectory:
\* permission is "granted" (by the query or on request), "denied", or reading
\* the folder throws ("error"); when granted the build begins
LoadPlaylistPermission(b, answer) ==
  /\ b \in 1..Len(pending)
  /\ pending[b].kind = "playlist"
  /\ pending[b].phase = "perm"
  /\ CASE answer = "granted" ->
            /\ pending' = Append(RemoveAt(pending, b),
                 [pending[b] EXCEPT
                    !.phase = "extract",
                    !.files = ReadDirectory(CHOOSE h \in UNION {p.folderHandle :
                                              p \in pending[b].playlist} : TRUE)])
            /\ lastEvent' = Event("LoadPlaylistPermission", "")
       [] answer = "denied" ->
            /\ pending' = RemoveAt(pending, b)
            /\ lastEvent' = Event("LoadPlaylistPermission", "Permission denied. Please re-add this playlist.")
       [] OTHER ->
            /\ pending' = RemoveAt(pending, b)
            /\ lastEvent' = Event("LoadPlaylistPermission", "Failed to load playlist")
  /\ UNCHANGED <<allVideos, sidecarVars, showFavoritesOnly, batchMode,
                 selectedVideos, activePlaylist, currentDirectoryHandle,
                 filterInputs, handlesDB, restore, currentVideo, tagsModal, view, catalogStale>>

\* a clear that re-renders but keeps the filter
ClearPlaylistKeepsFilter ==
  /\ view' = Display(allVideos, showFavoritesOnly, activePlaylist)
  /\ lastEvent' = Event("ClearPlaylist", "")
  /\ UNCHANGED <<allVideos, sidecarVars, showFavoritesOnly, batchMode,
                 selectedVideos, activePlaylist, currentDirectoryHandle, pending,
                 filterInputs, handlesDB, restore, currentVideo, tagsModal, catalogStale>>

\* window.clearPlaylist
ClearPlaylist ==
  /\ activePlaylist' = {}
  /\ view' = Display(allVideos, showFavoritesOnly, activePlaylist')
  /\ lastEvent' = Event("ClearPlaylist", "")
  /\ UNCHANGED <<allVideos, sidecarVars, showFavoritesOnly, batchMode,
                 selectedVideos, currentDirectoryHandle, pending, filterInputs, handlesDB, restore, currentVideo, tagsModal,
                 catalogStale>>

\* window.deletePlaylist(index); confirmed is the answer to confirm()
DeletePlaylist(index, confirmed) ==
  /\ IF confirmed
     THEN /\ IF /\ activePlaylist # {}
                /\ index < Len(playlists)
                /\ playlists[index + 1].oid \in {p.oid : p \in activePlaylist}
             THEN /\ activePlaylist' = {}
                  /\ view' = Display(allVideos, showFavoritesOnly, activePlaylist')
             ELSE UNCHANGED <<activePlaylist, view>>
          /\ playlists' = IF index < Len(playlists)
                          THEN RemoveAt(playlists, index + 1) ELSE playlists
          /\ lsPlaylists' = {PlaylistsToJSON(playlists')}
     ELSE UNCHANGED <<activePlaylist, view, playlists, lsPlaylists>>
  /\ lastEvent' = Event("DeletePlaylist", "")
  /\ UNCHANGED <<allVideos, favorites, videoTags, lsFavorites, lsVideoTags,
                 showFavoritesOnly, batchMode, selectedVideos,
                 currentDirectoryHandle, pending, filterInputs, handlesDB, restore, currentVideo, tagsModal, catalogStale>>

(***************************************************************************)
(* restoreFolderHandles: the loop over playlists, suspended at               *)
(* openHandlesDB ("open") or at getHandleFromDB for playlists[i] ("get").    *)
(***************************************************************************)
\* playlists[i].folderName && !playlists[i].folderHandle, i 0-based
NeedsHandle(ps, i) == ps[i + 1].folderName # {} /\ ps[i + 1].folderHandle = {}

\* request.result?.handle
GetHandle(db, name) == IF name \in DOMAIN db THEN {db[name]} ELSE {}

\* the loop from index i up to its next await, or to its end
RestoreFrom(ps, db, i) ==
  LET need == {k \in i..(Len(ps) - 1) : NeedsHandle(ps, k)}
  IN  IF need = {} THEN [phase |-> "done", i |-> 0, handle |-> {}]
      ELSE LET k == CHOOSE x \in need : \A y \in need : x <= y
           IN  [phase |-> "get", i |-> k, handle |-> GetHandle(db, ps[k + 1].name)]

\* if (handle) playlists[i].folderHandle = handle
AttachHandle(ps, i, handle) == [ps EXCEPT ![i + 1].folderHandle = handle]

\* restoreFolderHandles resumes behind openHandlesDB
RestoreOpen ==
  /\ restore.phase = "open"
  /\ restore' = RestoreFrom(playlists, handlesDB, 0)
  /\ lastEvent' = Event("RestoreOpen", "")
  /\ UNCHANGED <<allVideos, sidecarVars, showFavoritesOnly, batchMode,
                 selectedVideos, activePlaylist, currentDirectoryHandle, pending,
                 filterInputs, handlesDB, currentVideo, tagsModal, view, catalogStale>>

\* restoreFolderHandles resumes behind getHandleFromDB; an assignment to a
\* playlists[i] that is undefined throws, which ends the loop in the catch
RestoreGet ==
  /\ restore.phase = "get"
  /\ lastEvent' = Event("RestoreGet", "")
  /\ IF restore.handle = {}
     THEN /\ restore' = RestoreFrom(playlists, handlesDB, restore.i + 1)
          /\ UNCHANGED playlists
     ELSE IF restore.i < Len(playlists)
     THEN /\ playlists' = AttachHandle(playlists, restore.i, restore.handle)
          /\ restore' = RestoreFrom(playlists', handlesDB, restore.i + 1)
     ELSE /\ restore' = [phase |-> "done", i |-> 0, handle |-> {}]
          /\ UNCHANGED playlists
  /\ UNCHANGED <<allVideos, favorites, videoTags, lsFavorites, lsPlaylists,
                 lsVideoTags, showFavoritesOnly, batchMode, selectedVideos,
                 activePlaylist, currentDirectoryHandle, pending, filterInputs,
                 handlesDB, currentVideo, tagsModal, view, catalogStale>>

RestoreActions == RestoreOpen \/ RestoreGet

(***************************************************************************)
(* Export and import.                                                      *)
(***************************************************************************)
\* an import that adds the document's favorites to the ones held
ImportStoreMerge(store, doc, used) ==
  [favorites |-> IF doc.favorites # {}
                 THEN store.favorites \o (CHOOSE f \in doc.favorites : TRUE)
                 ELSE store.favorites,
   playlists |-> IF doc.playlists # {}
                 THEN LET json == CHOOSE ps \in doc.playlists : TRUE
                          oids == FreshOids(Len(json), used)
                      IN  [i \in 1..Len(json) |-> PlaylistObject(json[i], oids[i])]
                 ELSE store.playlists,
   videoTags |-> IF doc.videoTags # {}
                 THEN CHOOSE t \in doc.videoTags : TRUE ELSE store.videoTags]

\* the try block of reader.onload in the importData handler on a document
\* JSON.parse accepts: a store is [favorites, playlists, videoTags]; used
\* holds the identities of the objects still referred to
ImportStore(store, doc, used) ==
  [favorites |-> IF doc.favorites # {}
                 THEN CHOOSE f \in doc.favorites : TRUE ELSE store.favorites,
   playlists |-> IF doc.playlists # {}
                 THEN LET json == CHOOSE ps \in doc.playlists : TRUE
                          oids == FreshOids(Len(json), used)
                      IN  [i \in 1..Len(json) |-> PlaylistObject(json[i], oids[i])]
                 ELSE store.playlists,
   videoTags |-> IF doc.videoTags # {}
                 THEN CHOOSE t \in doc.videoTags : TRUE ELSE store.videoTags]

\* the importData handler with reader.onload
ImportData(doc) ==
  IF doc.malformed
  THEN /\ lastEvent' = Event("ImportData", "Error importing data")
       /\ UNCHANGED <<allVideos, sidecarVars, showFavoritesOnly, batchMode,
                      selectedVideos, activePlaylist, currentDirectoryHandle,
                      pending, filterInputs, handlesDB, restore, currentVideo, tagsModal, view, catalogStale>>
  ELSE LET store == [favorites |-> favorites, playlists |-> playlists,
                     videoTags |-> videoTags]
           new == ImportStore(store, doc,
                    {p.oid : p \in activePlaylist}
                      \cup UNION {{p.oid : p \in pending[j].playlist} :
                                    j \in 1..Len(pending)})
       IN  /\ favorites' = new.favorites
           /\ playlists' = new.playlists
           /\ videoTags' = new.videoTags
           /\ lsFavorites' = IF doc.favorites # {} THEN {favorites'} ELSE lsFavorites
           /\ lsPlaylists' = IF doc.playlists # {}
                             THEN {PlaylistsToJSON(playlists')} ELSE lsPlaylists
           /\ lsVideoTags' = IF doc.videoTags # {} THEN {videoTags'} ELSE lsVideoTags
           /\ view' = Display(allVideos, showFavoritesOnly, activePlaylist)
           /\ lastEvent' = Event("ImportData", "Data imported successfully!")
           /\ UNCHANGED <<allVideos, showFavoritesOnly, batchMode, selectedVideos,
                          activePlaylist, currentDirectoryHandle, pending,
                          filterInputs, handlesDB, restore, currentVideo, tagsModal, catalogStale>>

(***************************************************************************)
(* The handlers by family, and the engine: every handler above.            *)
(***************************************************************************)
BuildActions ==
  \/ \E batch \in DropBatches : HandleDrop(batch)
  \/ \E h \in Handles : SelectFolder(h)
  \/ \E b \in 1..Len(pending) : \E i \in 1..Len(pending[b].files) : ExtractFile(b, i)
  \/ \E b \in 1..Len(pending) : InstallBuild(b)

FavoriteActions ==
  \/ \E id \in Ids(view) : ToggleFavorite(id)
  \/ FavoritesToggle

QueryActions ==
  \/ \E text \in SearchInputs : SearchInput(text)
  \/ \E key \in SortKeys : SortChange(key)
  \/ \E format \in Formats : FormatChange(format)
  \/ \E quality \in Qualities : QualityChange(quality)

BatchActions ==
  \/ BatchBtn
  \/ BatchCancel
  \/ BatchSelectAll
  \/ BatchDeselectAll
  \/ BatchAddToFavorites
  \/ BatchRemoveFromFavorites
  \/ \E confirmed \in BOOLEAN : BatchDelete(confirmed)

TagActions ==
  \/ BatchAddTags
  \/ \E i \in 1..Len(view) : PlayVideo(i)
  \/ CloseVideoModal
  \/ FavoriteBtn
  \/ TagsBtn
  \/ CloseTagsModal
  \/ \E input \in TagInputs : AddTagsBtn(input)

SavePlaylistActions ==
  \/ \E input \in NameInputs : SavePlaylistStart(input)
  \/ \E b \in 1..Len(pending), granted \in BOOLEAN, now \in 1..MaxSavedDate :
       SavePlaylistPermission(b, granted, now)
  \/ \E b \in 1..Len(pending) : SavePlaylistPut(b)
  \/ \E b \in 1..Len(pending) : SavePlaylistStore(b)

PlaylistActions ==
  \/ \E input \in NameInputs : CreatePlaylist(input)
  \/ \E index \in 0..MaxPlaylists : LoadPlaylist(index)
  \/ \E b \in 1..Len(pending), answer \in {"granted", "denied", "error"} :
       LoadPlaylistPermission(b, answer)
  \/ ClearPlaylist
  \/ \E index \in 0..MaxPlaylists, confirmed \in BOOLEAN : DeletePlaylist(index, confirmed)

ImportActions == \E doc \in ImportDocs \cup RepeatingDocs : ImportData(doc)

Next ==
  \/ RestoreActions
  \/ BuildActions
  \/ FavoriteActions
  \/ QueryActions
  \/ BatchActions
  \/ TagActions
  \/ SavePlaylistActions
  \/ PlaylistActions
  \/ ImportActions

Spec == Init /\ [][Next]_vars

(***************************************************************************)
(* Specifications of parts of the engine.  Each starts in a state of Spec  *)
(* (the program at rest after start-up) and takes only steps of Next.      *)
(***************************************************************************)
Idle == pending = <<>>

\* builds from the three sources, overlapping
NextCatalog ==
  \/ BuildActions
  \/ \E index \in 0..MaxPlaylists : LoadPlaylist(index)
  \/ \E b \in 1..Len(pending), answer \in {"granted", "denied", "error"} :
       LoadPlaylistPermission(b, answer)

SpecCatalog ==
  (\E persisted \in Persisted \ {FreshStore} : Restored(persisted))
    /\ [][NextCatalog]_vars

\* favorites, batch operations and import over a Catalog, one build at a
\* time
NextFavorites ==
  \/ Idle /\ \E batch \in DropBatches : HandleDrop(batch)
  \/ Idle /\ SelectFolder("dir1")
  \/ \E b \in 1..Len(pending) : \E i \in 1..Len(pending[b].files) : ExtractFile(b, i)
  \/ \E b \in 1..Len(pending) : InstallBuild(b)
  \/ \E id \in Ids(view) : ToggleFavorite(id)
  \/ BatchActions
  \/ \E doc \in {d \in ImportDocs : d.favorites # {} /\ d.playlists = {}} :
       ImportData(doc)

SpecFavorites == Restored(FreshStore) /\ [][NextFavorites]_vars

\* import of every document over stores filled by the other commands
NextImport ==
  \/ Idle /\ \E batch \in DropBatches : HandleDrop(batch)
  \/ \E b \in 1..Len(pending) : \E i \in 1..Len(pending[b].files) : ExtractFile(b, i)
  \/ \E b \in 1..Len(pending) : InstallBuild(b)
  \/ \E id \in Ids(view) : ToggleFavorite(id)
  \/ \E input \in NameInputs : CreatePlaylist(input)
  \/ \E doc \in ImportDocs : ImportData(doc)

SpecImport ==
  (\E persisted \in Persisted : Restored(persisted)) /\ [][NextImport]_vars

\* the playlists: a session that begins with or without a saved
\* folder-backed playlist, one load at a time
NextPlaylists ==
  \/ \E input \in NameInputs : CreatePlaylist(input)
  \/ Idle /\ \E index \in 0..MaxPlaylists : LoadPlaylist(index)
  \/ \E b \in 1..Len(pending), answer \in {"granted", "denied", "error"} :
       LoadPlaylistPermission(b, answer)
  \/ \E b \in 1..Len(pending) : \E i \in 1..Len(pending[b].files) : ExtractFile(b, i)
  \/ \E b \in 1..Len(pending) : InstallBuild(b)
  \/ ClearPlaylist
  \/ \E index \in 0..MaxPlaylists, confirmed \in BOOLEAN : DeletePlaylist(index, confirmed)
  \/ FavoritesToggle
  \/ \E doc \in {d \in ImportDocs : d.playlists # {} /\ d.favorites = {}} : ImportData(doc)

SpecPlaylists ==
  (\E persisted \in Persisted : Restored(persisted)) /\ [][NextPlaylists]_vars

\* the query engine over a Catalog built earlier: the store holds favorite
\* IdA and the manual playlist "m" an import has left
MaxQueryLen == 2

RECURSIVE FileSeqs(_)
FileSeqs(n) ==
  IF n = 0 THEN {<<>>}
  ELSE FileSeqs(n - 1)
         \cup {Append(fs, f) : fs \in {x \in FileSeqs(n - 1) : Len(x) = n - 1},
                               f \in {FileA, FileB, FileC}}

QueryStore ==
  [favorites |-> {<<IdA>>}, videoTags |-> {},
   playlists |-> {<<ManualJSON(<<"m">>, <<IdA>>)>>}, handles |-> <<>>]

QueryInit ==
  \E files \in FileSeqs(MaxQueryLen) :
    /\ allVideos = [i \in 1..Len(files) |-> ProcessVideo(files[i], <<IdA>>)]
    /\ favorites = <<IdA>>
    /\ playlists = ParsedPlaylists(QueryStore.playlists)
    /\ videoTags = <<>>
    /\ lsFavorites = QueryStore.favorites
    /\ lsPlaylists = QueryStore.playlists
    /\ lsVideoTags = QueryStore.videoTags
    /\ handlesDB = QueryStore.handles
    /\ showFavoritesOnly = FALSE
    /\ batchMode = FALSE
    /\ selectedVideos = <<>>
    /\ activePlaylist = {}
    /\ currentDirectoryHandle = {}
    /\ pending = <<>>
    /\ searchQuery = <<>>
    /\ sortBy = "name"
    /\ formatFilter = All
    /\ qualityFilter = "all"
    /\ view = SortBy(allVideos, "name")
    /\ lastEvent = Event("InstallBuild(drop)", "")
    /\ restore = [phase |-> "done", i |-> 0, handle |-> {}]
    /\ catalogStale = FALSE
    /\ currentVideo = {}
    /\ tagsModal = FALSE

NextQuery ==
  \/ \E text \in SearchInputs : SearchInput(text)
  \/ \E key \in {"name", "size"} : SortChange(key)
  \/ \E format \in Formats : FormatChange(format)
  \/ \E quality \in Qualities : QualityChange(quality)
  \/ FavoritesToggle
  \/ LoadPlaylist(0)
  \/ ClearPlaylist

SpecQuery == QueryInit /\ [][NextQuery]_vars

(***************************************************************************)
(* Properties.                                                             *)
(***************************************************************************)
\* C1: when a build B is started after a build A and B settles first, the
\* Catalog after both have completed holds B's entries, not A's: no build
\* that a later-started build has overtaken ever replaces the Catalog.
C1_LastStartedBuildWins == ~catalogStale

\* the commands that change the favorites array
FavoriteCommands ==
  {"ToggleFavorite", "BatchAddToFavorites", "BatchRemoveFromFavorites", "ImportData"}

\* C2: in every state reached when a command that changes the favorites has
\* completed, every Catalog entry's isFavorite equals the membership of its
\* id in favorites, entries that share an id included.
C2_FavoriteFlagsFollowStore ==
  lastEvent.op \in FavoriteCommands =>
    \A i \in 1..Len(allVideos) :
      allVideos[i].isFavorite = (\E k \in 1..Len(favorites) : favorites[k] = allVideos[i].id)

\* the flag of the entry of videos the id identifies (the first one found)
FlagOf(videos, id) ==
  LET at == {i \in 1..Len(videos) : videos[i].id = id}
  IN  videos[CHOOSE i \in at : \A j \in at : i <= j].isFavorite

\* C3: toggleFavorite applied twice to the same id restores the entry's
\* isFavorite, and after each of the two toggles the id is in favorites
\* exactly when the flag is set.
C3_ToggleTwiceRestores ==
  \A id \in Ids(view) \cap Ids(allVideos) :
    LET favs1 == ToggleFavoriteStore(favorites, id)
        vids1 == ToggleFavoriteMirror(allVideos, id)
        favs2 == ToggleFavoriteStore(favs1, id)
        vids2 == ToggleFavoriteMirror(vids1, id)
    IN  /\ FlagOf(vids2, id) = FlagOf(allVideos, id)
        /\ FlagOf(vids1, id) = (\E k \in 1..Len(favs1) : favs1[k] = id)
        /\ FlagOf(vids2, id) = (\E k \in 1..Len(favs2) : favs2[k] = id)

\* C4: a confirmed batch delete over a non-empty selection removes from the
\* Catalog exactly the entries whose id is selected, keeps the others in
\* their order, and leaves favorites, tags and playlists as they were.
C4_BatchDeleteRemovesSelected ==
  [][(BatchDelete(TRUE) /\ Len(selectedVideos) > 0) =>
       LET keep == {i \in 1..Len(allVideos) :
                      \A k \in 1..Len(selectedVideos) : selectedVideos[k] # allVideos[i].id}
           Rank(i) == Cardinality({j \in keep : j <= i})
       IN  /\ Len(allVideos') = Cardinality(keep)
           /\ \A i \in keep : allVideos'[Rank(i)] = allVideos[i]
           /\ UNCHANGED sidecarVars]_vars

\* a delete that removed an entry, kept another and had favorites to leave
C4_Witness ==
  /\ lastEvent.op = "BatchDelete(deleted)"
  /\ allVideos # <<>>
  /\ favorites # <<>>

\* the playlists without the identity of the objects
PlaylistContent(ps) ==
  [i \in 1..Len(ps) |->
     [name |-> ps[i].name, videos |-> ps[i].videos, folderName |-> ps[i].folderName,
      folderHandle |-> ps[i].folderHandle, savedDate |-> ps[i].savedDate]]

\* C5: import replaces a store (the variable and its persisted document)
\* by the document's value exactly when the document holds the store's key,
\* and leaves it alone otherwise; a document that does not parse is
\* reported as an error and changes no store.
C5_ImportReplacesPresentKeys ==
  [][\A doc \in ImportDocs :
       ImportData(doc) =>
         IF doc.malformed
         THEN lastEvent'.alert = "Error importing data" /\ UNCHANGED sidecarVars
         ELSE /\ lastEvent'.alert = "Data imported successfully!"
              /\ IF doc.favorites = {} THEN UNCHANGED <<favorites, lsFavorites>>
                 ELSE doc.favorites = {favorites'} /\ lsFavorites' = doc.favorites
              /\ IF doc.playlists = {} THEN UNCHANGED <<playlists, lsPlaylists>>
                 ELSE /\ doc.playlists = {PlaylistContent(playlists')}
                      /\ lsPlaylists' = doc.playlists
              /\ IF doc.videoTags = {} THEN UNCHANGED <<videoTags, lsVideoTags>>
                 ELSE doc.videoTags = {videoTags'} /\ lsVideoTags' = doc.videoTags]_vars

\* three imports of one key each have filled the three stores: each left
\* the other two alone
C5_Witness ==
  /\ lastEvent = Event("ImportData", "Data imported successfully!")
  /\ favorites = <<IdA>>
  /\ playlists # <<>>
  /\ videoTags # <<>>

\* C6: exporting all three stores and importing the document into a fresh
\* store gives favorites, playlists and videoTags identical to the exported
\* ones, folder-backed playlists included.
C6_ExportImportRoundTrip ==
  LET fresh == [favorites |-> <<>>, playlists |-> <<>>, videoTags |-> <<>>]
      got == ImportStore(fresh, ExportAll(favorites, playlists, videoTags), {})
  IN  /\ got.favorites = favorites
      /\ PlaylistContent(got.playlists) = PlaylistContent(playlists)
      /\ got.videoTags = videoTags

\* the files of a folder that qualify: files, not folders, whose name ends
\* in a dot and a whitelisted extension, in any case
QualifyingCount(h) ==
  Cardinality({i \in 1..Len(DirEntries(h)) :
     /\ DirEntries(h)[i].kind = "file"
     /\ \E ext \in ValidExtensions :
          LET name == DirEntries(h)[i].file.name
              n == Len(ext)
          IN  /\ Len(name) > n
              /\ name[Len(name) - n] = "."
              /\ \A k \in 1..n : LowerChar(name[Len(name) - n + k]) = ext[k]})

C8_PermissionDeniedLeavesState ==
  [][\A b \in 1..Len(pending) :
       LoadPlaylistPermission(b, "denied") =>
         /\ lastEvent'.alert = "Permission denied. Please re-add this playlist."
         /\ UNCHANGED <<allVideos, activePlaylist, showFavoritesOnly,
                        currentDirectoryHandle>>]_vars

\* a denial met a Catalog, an active playlist and the favorites-only flag
C8_Witness ==
  /\ lastEvent.alert = "Permission denied. Please re-add this playlist."
  /\ allVideos # <<>>
  /\ activePlaylist # {}
  /\ showFavoritesOnly

\* C9: loading a manual playlist makes it the active playlist filter,
\* clearPlaylist sets the filter to none whatever the state, and neither
\* changes the Catalog.
C9_PlaylistFilterKeepsCatalog ==
  [][/\ \A index \in 0..MaxPlaylists :
          (/\ LoadPlaylist(index)
           /\ index < Len(playlists)
           /\ playlists[index + 1].folderHandle = {}
           /\ playlists[index + 1].videos # {}) =>
            /\ activePlaylist' = {playlists[index + 1]}
            /\ allVideos' = allVideos
     /\ ClearPlaylist => (activePlaylist' = {} /\ allVideos' = allVideos)]_vars

\* a manual playlist has been made the filter over a Catalog
C9_Witness ==
  /\ lastEvent.op = "LoadPlaylist(manual)"
  /\ activePlaylist # {}
  /\ allVideos # <<>>

\* the five predicates of the filter, on what the file is
Satisfies(e) ==
  /\ \E offset \in 0..(Len(e.file.name) - Len(searchQuery)) :
       \A k \in 1..Len(searchQuery) :
         LowerChar(e.file.name[offset + k]) = LowerChar(searchQuery[k])
  /\ \/ formatFilter = All
     \/ LET n == Len(formatFilter)
            name == e.file.name
        IN  /\ Len(name) > n
            /\ name[Len(name) - n] = "."
            /\ \A k \in 1..n : LowerChar(name[Len(name) - n + k]) = formatFilter[k]
  /\ showFavoritesOnly => e.isFavorite
  /\ LET dim == IF ~e.file.decodes THEN 0
                ELSE IF e.file.videoWidth >= e.file.videoHeight
                THEN e.file.videoWidth ELSE e.file.videoHeight
     IN  CASE qualityFilter = "4k" -> dim >= 2160
           [] qualityFilter = "1080p" -> 1080 <= dim /\ dim < 2160
           [] qualityFilter = "720p" -> 720 <= dim /\ dim < 1080
           [] qualityFilter = "sd" -> dim < 720
           [] OTHER -> TRUE
  /\ \A p \in activePlaylist :
       \E vids \in p.videos : \E k \in 1..Len(vids) : vids[k] = e.id

Occurrences(videos, e) == Cardinality({i \in 1..Len(videos) : videos[i] = e})

\* C10: each time updateDisplay has run, the projected view holds exactly
\* the Catalog entries that satisfy all five predicates (search, format,
\* favorites, quality, playlist), each as often as the Catalog holds it.
C10_ViewIsExactlyTheMatches ==
  lastEvent.op # "QualityChange" =>
    \A e \in Range(allVideos) \cup Range(view) :
      Occurrences(view, e) = IF Satisfies(e) THEN Occurrences(allVideos, e) ELSE 0

\* a view that has dropped one entry for the playlist and kept another
C10_Witness ==
  /\ lastEvent.op = "LoadPlaylist(manual)"
  /\ Len(allVideos) = 2
  /\ Len(view) = 1
  /\ formatFilter # All
  /\ searchQuery # <<>>
  /\ qualityFilter = "1080p"

(***************************************************************************)
(* The quality filter over Catalogs of one entry whose resolution lies at  *)
(* or next to a bucket boundary.                                           *)
(***************************************************************************)
Dimensions == {0, 719, 720, 1079, 1080, 2159, 2160, 3840}

QualityFile(w, h, decodes) ==
  [FileC EXCEPT !.videoWidth = w, !.videoHeight = h, !.decodes = decodes]

QualityInit ==
  \E w \in Dimensions, h \in Dimensions, decodes \in BOOLEAN :
    /\ allVideos = <<ProcessVideo(QualityFile(w, h, decodes), <<>>)>>
    /\ favorites = <<>>
    /\ playlists = <<>>
    /\ videoTags = <<>>
    /\ lsFavorites = {}
    /\ lsPlaylists = {}
    /\ lsVideoTags = {}
    /\ handlesDB = <<>>
    /\ showFavoritesOnly = FALSE
    /\ batchMode = FALSE
    /\ selectedVideos = <<>>
    /\ activePlaylist = {}
    /\ currentDirectoryHandle = {}
    /\ pending = <<>>
    /\ searchQuery = <<>>
    /\ sortBy = "name"
    /\ formatFilter = All
    /\ qualityFilter = "all"
    /\ view = allVideos
    /\ lastEvent = Event("InstallBuild(drop)", "")
    /\ restore = [phase |-> "done", i |-> 0, handle |-> {}]
    /\ catalogStale = FALSE
    /\ currentVideo = {}
    /\ tagsModal = FALSE

NextQuality ==
  \/ \E quality \in Qualities : QualityChange(quality)
  \/ \E key \in {"name", "date"} : SortChange(key)

SpecQuality == QualityInit /\ [][NextQuality]_vars

\* the bucket of a picture whose larger side is dim
Bucket(dim) ==
  IF dim >= 2160 THEN "4k"
  ELSE IF dim >= 1080 THEN "1080p"
  ELSE IF dim >= 720 THEN "720p"
  ELSE "sd"

\* the larger side the decoder found; 0 for a file it could not decode
LargerSide(file) ==
  IF ~file.decodes THEN 0
  ELSE IF file.videoWidth >= file.videoHeight THEN file.videoWidth ELSE file.videoHeight

\* C11: the quality filter buckets an entry by max(width, height): 4k iff
\* >= 2160, 1080p iff in [1080, 2160), 720p iff in [720, 1080), sd iff
\* < 720; every entry matches exactly one of the four buckets, a degraded
\* 0x0 entry matches sd, "all" matches every entry, and the view
\* updateDisplay renders holds the entry exactly when its bucket is chosen.
C11_QualityBuckets ==
  \A i \in 1..Len(allVideos) :
    LET e == allVideos[i]
        buckets == {"4k", "1080p", "720p", "sd"}
    IN  /\ \A q \in buckets : MatchesQuality(e, q) <=> (q = Bucket(LargerSide(e.file)))
        /\ Cardinality({q \in buckets : MatchesQuality(e, q)}) = 1
        /\ e.meta.resolution = <<"0", "x", "0">> => MatchesQuality(e, "sd")
        /\ MatchesQuality(e, "all")
        /\ lastEvent.op # "QualityChange" =>
             ((\E k \in 1..Len(view) : view[k] = e)
                <=> (qualityFilter = "all" \/ qualityFilter = Bucket(LargerSide(e.file))))

\* an entry of exactly 2160 on its larger side is shown under 4k
C11_Witness ==
  /\ lastEvent.op = "SortChange"
  /\ qualityFilter = "4k"
  /\ Len(view) = 1
  /\ LargerSide(view[1].file) = 2160

(***************************************************************************)
(* The sort over Catalogs whose entries tie on some keys: FileA and its    *)
(* copy on every key, FileB and FileC on the size.                         *)
(***************************************************************************)
MaxSortLen == 3

RECURSIVE SeqsOver(_, _)
SeqsOver(files, n) ==
  IF n = 0 THEN {<<>>}
  ELSE SeqsOver(files, n - 1)
         \cup {Append(fs, f) : fs \in {x \in SeqsOver(files, n - 1) : Len(x) = n - 1},
                               f \in files}

SortInit ==
  \E files \in SeqsOver({FileA, FileACopy, FileB, FileC}, MaxSortLen) :
    /\ allVideos = [i \in 1..Len(files) |-> ProcessVideo(files[i], <<>>)]
    /\ favorites = <<>>
    /\ playlists = <<>>
    /\ videoTags = <<>>
    /\ lsFavorites = {}
    /\ lsPlaylists = {}
    /\ lsVideoTags = {}
    /\ handlesDB = <<>>
    /\ showFavoritesOnly = FALSE
    /\ batchMode = FALSE
    /\ selectedVideos = <<>>
    /\ activePlaylist = {}
    /\ currentDirectoryHandle = {}
    /\ pending = <<>>
    /\ searchQuery = <<>>
    /\ sortBy = "name"
    /\ formatFilter = All
    /\ qualityFilter = "all"
    /\ view = SortBy(allVideos, "name")
    /\ lastEvent = Event("InstallBuild(drop)", "")
    /\ restore = [phase |-> "done", i |-> 0, handle |-> {}]
    /\ catalogStale = FALSE
    /\ currentVideo = {}
    /\ tagsModal = FALSE

\* "none" stands for a value of #sort that is none of the four keys
NextSort ==
  \/ \E key \in SortKeys \cup {"none"} : SortChange(key)
  \/ \E format \in Formats : FormatChange(format)

SpecSort == SortInit /\ [][NextSort]_vars

\* a goes before b under the sort key, on what the files are
Before(a, b) ==
  CASE sortBy = "name" -> LocaleCompare(a.file.name, b.file.name) < 0
    [] sortBy = "date" -> a.file.lastModified > b.file.lastModified
    [] sortBy = "size" -> a.file.size > b.file.size
    [] sortBy = "duration" ->
         (IF a.file.decodes THEN a.file.duration ELSE 0)
           > (IF b.file.decodes THEN b.file.duration ELSE 0)
    [] OTHER -> FALSE

\* C12: the projected view is a permutation of the filtered entries ordered
\* by the sort key (name ascending, date, size and duration descending);
\* entries that compare equal keep their Catalog order, and an unknown sort
\* key leaves the filtered entries in Catalog order.
C12_ViewIsSortedStably ==
  LET filtered == {i \in 1..Len(allVideos) : Satisfies(allVideos[i])}
  IN  \E at \in [1..Len(view) -> 1..Len(allVideos)] :
        /\ {at[k] : k \in 1..Len(view)} = filtered
        /\ Len(view) = Cardinality(filtered)
        /\ \A k \in 1..Len(view) : view[k] = allVideos[at[k]]
        /\ \A j, k \in 1..Len(view) :
             j < k => /\ ~Before(view[k], view[j])
                      /\ Before(view[j], view[k]) \/ at[j] < at[k]

\* b.mkv and ab.mp4 tie on the size and stand in their Catalog order, in
\* front of A.MP4 that the Catalog holds first
C12_Witness ==
  /\ lastEvent.op = "SortChange"
  /\ sortBy = "size"
  /\ Len(view) = 3
  /\ allVideos[1].file = FileA
  /\ view[1].file = FileB
  /\ view[2].file = FileC

\* C13: a build over n files yields a Catalog of exactly n entries in the
\* files' order; a file whose extraction fails contributes a degraded entry
\* (empty thumbnail, duration 0, resolution 0x0) under its normal id, and
\* a file that decodes contributes its frame, duration and resolution.
C13_FailedExtractionDegrades ==
  [][\A b \in 1..Len(pending) :
       InstallBuild(b) =>
         /\ DOMAIN allVideos' = DOMAIN pending[b].files
         /\ \A i \in DOMAIN pending[b].files :
              LET file == pending[b].files[i]
                  e == allVideos'[i]
              IN  /\ e.file = file
                  /\ e.id = VideoId(file)
                  /\ e.meta.created = file.lastModified
                  /\ e.meta.size = file.size
                  /\ IF file.decodes
                     THEN e.thumbnail # "" /\ e.meta.duration = file.duration
                     ELSE /\ e.thumbnail = ""
                          /\ e.meta.duration = 0
                          /\ e.meta.resolution = <<"0", "x", "0">>]_vars

\* the build of dir1 has put the undecodable b.mkv behind A.MP4
C13_Witness ==
  /\ lastEvent.op = "InstallBuild(folder)"
  /\ Len(allVideos) = 2
  /\ allVideos[1].file = FileA
  /\ allVideos[2].file = FileB
  /\ allVideos[2].thumbnail = ""
  /\ allVideos[2].id = IdB

\* C14: while a build's extractions are in flight the Catalog is still the
\* prior one: the Catalog and the view change in no step but the one in
\* which a build whose extractions have all settled is installed, and that
\* step makes the Catalog the entries of that build's whole batch, so no
\* state holds part of a batch or a mix of two.
C14_CatalogReplacedWhole ==
  [][(allVideos' # allVideos \/ view' # view) =>
       \E b \in 1..Len(pending) :
         /\ pending[b].phase = "extract"
         /\ \A i \in 1..Len(pending[b].files) : i \in DOMAIN pending[b].results
         /\ Len(allVideos') = Len(pending[b].files)
         /\ \A i \in 1..Len(pending[b].files) : allVideos'[i] = pending[b].results[i]
         /\ Len(pending') = Len(pending) - 1]_vars

\* a prior Catalog is held while a build has settled part of its batch
C14_Witness ==
  /\ allVideos # <<>>
  /\ \E b \in 1..Len(pending) :
       /\ pending[b].phase = "extract"
       /\ pending[b].results # <<>>
       /\ \E i \in 1..Len(pending[b].files) : i \notin DOMAIN pending[b].results
       /\ \E i \in DOMAIN pending[b].results : \A k \in 1..Len(allVideos) :
            allVideos[k].file # pending[b].results[i].file

(***************************************************************************)
(* The batch bar over the Catalogs of the two folders, with the favorites  *)
(* toggled and imported in between.                                        *)
(***************************************************************************)
NextBatch ==
  \/ Idle /\ \E h \in Handles : SelectFolder(h)
  \/ \E b \in 1..Len(pending) : \E i \in 1..Len(pending[b].files) : ExtractFile(b, i)
  \/ \E b \in 1..Len(pending) : InstallBuild(b)
  \/ \E id \in Ids(view) : ToggleFavorite(id)
  \/ BatchActions
  \/ Len(selectedVideos) = 0 /\ BatchAddTags
  \/ \E doc \in {d \in ImportDocs \cup RepeatingDocs :
                   d.favorites # {} /\ d.playlists = {}} : ImportData(doc)

SpecBatch == Restored(FreshStore) /\ [][NextBatch]_vars

\* every entry's flag is the membership of its id in favs
Mirrors(videos, favs) ==
  \A i \in 1..Len(videos) :
    videos[i].isFavorite = (\E k \in 1..Len(favs) : favs[k] = videos[i].id)

\* C15: batch addFavorites makes the favorites the union of what they were
\* and the selection, batch removeFavorites makes them the difference;
\* applying either a second time changes nothing, and afterwards every
\* Catalog entry's isFavorite is the membership of its id in favorites.
C15_BatchFavoritesUnionDifference ==
  [][/\ BatchAddToFavorites =>
          /\ Range(favorites') = Range(favorites) \cup Range(selectedVideos)
          /\ AddAllFavorites(favorites', selectedVideos) = favorites'
          /\ Mirrors(allVideos', favorites')
     /\ BatchRemoveFromFavorites =>
          /\ Range(favorites') = Range(favorites) \ Range(selectedVideos)
          /\ RemoveAllFavorites(favorites', selectedVideos) = favorites'
          /\ Mirrors(allVideos', favorites')]_vars

\* C16: with nothing selected, every batch operation (add favorites, remove
\* favorites, add tags, delete) leaves the Catalog, its isFavorite flags
\* included, and the three stores as they were, and batch delete reports
\* that there is nothing to do.
C16_EmptySelectionNoOp ==
  [][Len(selectedVideos) = 0 =>
       /\ (\/ BatchAddToFavorites
           \/ BatchRemoveFromFavorites
           \/ BatchAddTags
           \/ \E confirmed \in BOOLEAN : BatchDelete(confirmed)) =>
            /\ UNCHANGED <<allVideos, favorites, playlists, videoTags>>
            /\ ParsedOr(lsFavorites', <<>>) = ParsedOr(lsFavorites, <<>>)
            /\ ParsedOr(lsPlaylists', <<>>) = ParsedOr(lsPlaylists, <<>>)
            /\ ParsedOr(lsVideoTags', <<>>) = ParsedOr(lsVideoTags, <<>>)
       /\ (\E confirmed \in BOOLEAN : BatchDelete(confirmed)) => lastEvent'.alert # ""]_vars

\* C19: in every reachable state the favorites hold each id at most once,
\* after any sequence of toggleFavorite, batch add and remove, and import.
C19_FavoritesAreASet ==
  \A j, k \in 1..Len(favorites) : favorites[j] = favorites[k] => j = k

(***************************************************************************)
(* The tags dialog over the Catalog of one folder.  The dialog is a modal: *)
(* while it is shown only its own buttons are used.                        *)
(***************************************************************************)
NextTags ==
  \/ ~tagsModal /\ Idle /\ SelectFolder("dir1")
  \/ \E b \in 1..Len(pending) : \E i \in 1..Len(pending[b].files) : ExtractFile(b, i)
  \/ \E b \in 1..Len(pending) : InstallBuild(b)
  \/ ~tagsModal /\ BatchBtn
  \/ ~tagsModal /\ BatchCancel
  \/ ~tagsModal /\ BatchSelectAll
  \/ ~tagsModal /\ BatchDeselectAll
  \/ ~tagsModal /\ \E confirmed \in BOOLEAN : BatchDelete(confirmed)
  \/ ~tagsModal /\ BatchAddTags
  \/ ~tagsModal /\ \E i \in 1..Len(view) : PlayVideo(i)
  \/ ~tagsModal /\ CloseVideoModal
  \/ ~tagsModal /\ TagsBtn
  \/ CloseTagsModal
  \/ \E input \in TagInputs : AddTagsBtn(input)
  \/ ~tagsModal /\ \E doc \in {d \in ImportDocs \cup RepeatingDocs :
                                 d.videoTags # {} /\ d.favorites = {} /\ d.playlists = {}} :
                     ImportData(doc)

SpecTags == Restored(FreshStore) /\ [][NextTags]_vars

\* the tags of parsed that old does not hold, each once, in input order
NewTags(old, parsed) ==
  LET keep == {i \in 1..Len(parsed) :
                 /\ parsed[i] \notin Range(old)
                 /\ \A j \in 1..(i - 1) : parsed[j] # parsed[i]}
  IN  [k \in 1..Cardinality(keep) |->
         parsed[CHOOSE i \in keep : Cardinality({j \in keep : j <= i}) = k]]

\* no tag of the sequence is empty and none occurs twice
CleanTags(tags) ==
  /\ \A j \in 1..Len(tags) : tags[j] # <<>>
  /\ \A j, k \in 1..Len(tags) : tags[j] = tags[k] => j = k

\* C17: in every reachable state the tag sequence of each id holds no tag
\* twice (compared case-sensitively) and no empty tag; addTags keeps the
\* tags an id has in place and in order and appends, in input order, each
\* trimmed non-empty input tag the id does not have yet.
C17_TagsCleanAndAppended ==
  /\ [](\A id \in DOMAIN videoTags : CleanTags(videoTags[id]))
  /\ [][\A input \in TagInputs :
          AddTagsBtn(input) /\ lastEvent'.op = "AddTagsBtn(added)" =>
            \A v \in currentVideo : \A id \in Range(TaggedIds(v)) :
              TagsOf(videoTags', id) =
                TagsOf(videoTags, id) \o NewTags(TagsOf(videoTags, id), ParseTags(input))]_vars

\* C18: when the tags of a batch are applied, the ids whose tags change are
\* the ids selected at that moment: every selected id receives the tags and
\* no other id's tags change, whatever was done between opening the dialog
\* and confirming.
C18_BatchTagsGoToSelection ==
  [][\A input \in TagInputs :
       (/\ AddTagsBtn(input)
        /\ lastEvent'.op = "AddTagsBtn(added)"
        /\ \E v \in currentVideo : v.kind = "batch") =>
         /\ \A id \in Range(selectedVideos) :
              TagsOf(videoTags', id) =
                TagsOf(videoTags, id) \o NewTags(TagsOf(videoTags, id), ParseTags(input))
         /\ \A id \in (DOMAIN videoTags \cup DOMAIN videoTags') \ Range(selectedVideos) :
              TagsOf(videoTags', id) = TagsOf(videoTags, id)]_vars

(***************************************************************************)
(* The playlist commands that write the 'playlists' document: create,      *)
(* save of the current folder, delete, import.                             *)
(***************************************************************************)
NextSave ==
  \/ Idle /\ allVideos = <<>> /\ SelectFolder("dir2")
  \/ \E b \in 1..Len(pending) : \E i \in 1..Len(pending[b].files) : ExtractFile(b, i)
  \/ \E b \in 1..Len(pending) : InstallBuild(b)
  \/ \E input \in NameInputs : CreatePlaylist(input)
  \/ Idle /\ \E input \in NameInputs : SavePlaylistStart(input)
  \/ \E b \in 1..Len(pending), granted \in BOOLEAN, now \in 1..MaxSavedDate :
       SavePlaylistPermission(b, granted, now)
  \/ \E b \in 1..Len(pending) : SavePlaylistPut(b)
  \/ \E b \in 1..Len(pending) : SavePlaylistStore(b)
  \/ \E index \in 0..MaxPlaylists, confirmed \in BOOLEAN : DeletePlaylist(index, confirmed)
  \/ \E doc \in {d \in ImportDocs : d.playlists # {} /\ d.favorites = {}} : ImportData(doc)

SpecSave == Restored(FreshStore) /\ [][NextSave]_vars

\* the document lists the playlists in order: the name, the id list of a
\* manual playlist, the folder name and save time of a folder-backed one
Lists(doc, ps) ==
  /\ Len(doc) = Len(ps)
  /\ \A i \in 1..Len(ps) :
       /\ doc[i].name = ps[i].name
       /\ doc[i].videos = ps[i].videos
       /\ doc[i].folderName = ps[i].folderName
       /\ doc[i].savedDate = ps[i].savedDate

\* C20: after every playlist mutation (a manual playlist created, a
\* folder-backed one saved, a playlist deleted, playlists imported) the
\* persisted 'playlists' document lists every playlist held in memory, in
\* order, with its name and its id list or its folder name and save time;
\* in particular a save keeps the id lists of the manual playlists.
C20_PlaylistsDocumentListsAll ==
  [][(\/ \E input \in NameInputs : CreatePlaylist(input) /\ playlists' # playlists
      \/ \E b \in 1..Len(pending) : SavePlaylistStore(b)
      \/ \E index \in 0..MaxPlaylists : DeletePlaylist(index, TRUE) /\ playlists' # playlists
      \/ \E doc \in ImportDocs : ~doc.malformed /\ doc.playlists # {} /\ ImportData(doc)) =>
       /\ lsPlaylists' # {}
       /\ Lists(ParsedOr(lsPlaylists', <<>>), playlists')]_vars

\* C21: loadPlaylist with an index that refers to no playlist reports
\* "not found" and changes neither the Catalog, the active playlist filter,
\* the favorites-only flag, the playlists nor the current directory handle.
C21_MissingPlaylistReported ==
  [][\A index \in 0..MaxPlaylists :
       index >= Len(playlists) /\ LoadPlaylist(index) =>
         /\ lastEvent'.alert = "Playlist not found!"
         /\ UNCHANGED <<allVideos, activePlaylist, showFavoritesOnly, playlists,
                        currentDirectoryHandle, pending>>]_vars

\* a stale index (a playlist is left, the favorites-only flag is set) was
\* reported as not found
C21_Witness ==
  /\ lastEvent = Event("LoadPlaylist", "Playlist not found!")
  /\ playlists # <<>>
  /\ showFavoritesOnly

\* the input is empty or holds nothing but spaces
Blank(input) == \A i \in 1..Len(input) : input[i] = " "

\* C22: creating a manual playlist or saving the folder as a playlist with a
\* blank name is rejected with a message and leaves the playlists, in
\* memory and persisted, as they were; with a non-blank name create appends
\* exactly one manual playlist with an empty id list.
C22_BlankNameRejected ==
  [][\A input \in NameInputs :
       /\ Blank(input) /\ (CreatePlaylist(input) \/ SavePlaylistStart(input)) =>
            /\ lastEvent'.alert = "Please enter a playlist name"
            /\ UNCHANGED <<playlists, lsPlaylists, pending, handlesDB>>
       /\ ~Blank(input) /\ CreatePlaylist(input) =>
            /\ Len(playlists') = Len(playlists) + 1
            /\ SubSeq(playlists', 1, Len(playlists)) = playlists
            /\ playlists'[Len(playlists')].videos = {<<>>}
            /\ playlists'[Len(playlists')].folderName = {}
            /\ playlists'[Len(playlists')].folderHandle = {}
            /\ playlists'[Len(playlists')].name = Trim(input)
            /\ lastEvent'.alert = ""]_vars

\* a blank name was rejected while a folder was there to be saved and a
\* manual playlist had been created
C22_Witness ==
  /\ lastEvent.alert = "Please enter a playlist name"
  /\ currentDirectoryHandle # {}
  /\ \E i \in 1..Len(playlists) : playlists[i].videos = {<<>>}

(***************************************************************************)
(* processVideos over pairs of files whose names, sizes and dates are      *)
(* built from the same characters as the id's separator and digits.        *)
(***************************************************************************)
IdNames ==
  { <<"m", "p", "4">>, <<"1", ".", "m", "p", "4">>,
    <<"1", "_", "1", ".", "m", "p", "4">>, <<"_", ".", "m", "p", "4">> }

IdNumbers == {0, 1, 11}

IdFiles ==
  { [FileC EXCEPT !.name = n, !.size = sz, !.lastModified = lm] :
      n \in IdNames, sz \in IdNumbers, lm \in IdNumbers }

NextId ==
  \/ Idle /\ allVideos = <<>> /\ \E f, g \in IdFiles : HandleDrop(<<f, g>>)
  \/ \E b \in 1..Len(pending) : \E i \in 1..Len(pending[b].files) : ExtractFile(b, i)
  \/ \E b \in 1..Len(pending) : InstallBuild(b)

SpecId == Restored(FreshStore) /\ [][NextId]_vars

\* (name, size, lastModified) of the file of an entry
Triple(e) == <<e.file.name, e.file.size, e.file.lastModified>>

\* C23: the id of an entry is a function of (name, size, lastModified) only:
\* files with the same triple get the same id, files whose triples differ
\* in a component get different ids.
C23_IdFollowsTriple ==
  \A i, j \in 1..Len(allVideos) :
    (allVideos[i].id = allVideos[j].id) <=> (Triple(allVideos[i]) = Triple(allVideos[j]))

\* two entries of one name whose sizes and dates are 1, 11 and 11, 1
C23_Witness ==
  /\ Len(allVideos) = 2
  /\ Triple(allVideos[1]) = <<<<"1", "_", "1", ".", "m", "p", "4">>, 1, 11>>
  /\ Triple(allVideos[2]) = <<<<"1", "_", "1", ".", "m", "p", "4">>, 11, 1>>
  /\ allVideos[1].id # allVideos[2].id

(***************************************************************************)
(* Builds over stores that hold favorites and tags of ids no folder has.   *)
(***************************************************************************)
TaggedStore ==
  [favorites |-> {<<IdGone, IdA>>},
   videoTags |-> {(IdGone :> <<TagT>>) @@ (IdB :> <<TagT>>)},
   playlists |-> {<< [name |-> <<"p">>, videos |-> {}, folderName |-> {"dir2"},
                     folderHandle |-> {}, savedDate |-> {1}] >>},
   handles |-> (<<"p">> :> "dir2")]

SpecRebuild == Restored(TaggedStore) /\ [][NextCatalog]_vars

\* C24: building or rebuilding the Catalog (folder selection, drop batch,
\* folder-backed playlist load) leaves the favorites, the tags and the
\* playlists unchanged, so the tags and the favorite membership of ids the
\* new Catalog does not hold are retained.
C24_BuildKeepsStores ==
  [][(\/ \E batch \in DropBatches : HandleDrop(batch)
      \/ \E h \in Handles : SelectFolder(h)
      \/ \E index \in 0..MaxPlaylists : LoadPlaylist(index)
      \/ \E b \in 1..Len(pending), answer \in {"granted", "denied", "error"} :
           LoadPlaylistPermission(b, answer)
      \/ \E b \in 1..Len(pending) : \E i \in 1..Len(pending[b].files) : ExtractFile(b, i)
      \/ \E b \in 1..Len(pending) : InstallBuild(b)
      \/ allVideos' # allVideos) =>
       UNCHANGED <<favorites, videoTags, playlists, lsFavorites, lsVideoTags,
                   lsPlaylists>>]_vars

\* the Catalog of a folder-backed playlist was installed; it holds neither
\* z_9_9 nor b.mkv_2_2, and both are still tagged and z_9_9 still a favorite
C24_Witness ==
  /\ lastEvent.op = "InstallBuild(playlist)"
  /\ allVideos # <<>>
  /\ IdGone \notin Ids(allVideos)
  /\ IdGone \in Range(favorites)
  /\ IdGone \in DOMAIN videoTags
  /\ IdB \in DOMAIN videoTags /\ IdB \notin Ids(allVideos)

\* C25: the selection is empty immediately after batch mode is toggled on,
\* toggled off or cancelled, and in every reachable state in which batch
\* mode is off.
C25_SelectionClearedWithMode ==
  /\ [](~batchMode => selectedVideos = <<>>)
  /\ [][BatchBtn \/ BatchCancel => selectedVideos' = <<>>]_vars

\* batch mode was cancelled over a loaded Catalog
C25_Witness ==
  /\ lastEvent.op = "BatchCancel"
  /\ ~batchMode
  /\ allVideos # <<>>
  /\ selectedVideos = <<>>

(***************************************************************************)
(* Favorite commands while the folder is being read again.                 *)
(***************************************************************************)
\* every extraction of some build has resolved: Promise.all resolves and the
\* handler resumes in the same task, before any click is handled
Resuming ==
  \E b \in 1..Len(pending) : pending[b].phase = "extract" /\ Settled(pending[b])

NextRebuildFavorites ==
  \/ Idle /\ SelectFolder("dir1")
  \/ \E b \in 1..Len(pending) : \E i \in 1..Len(pending[b].files) : ExtractFile(b, i)
  \/ \E b \in 1..Len(pending) : InstallBuild(b)
  \/ ~Resuming /\ \E id \in Ids(view) : ToggleFavorite(id)
  \/ ~Resuming /\ BatchBtn
  \/ ~Resuming /\ BatchSelectAll
  \/ ~Resuming /\ BatchAddToFavorites
  \/ ~Resuming /\ BatchRemoveFromFavorites

SpecRebuildFavorites == Restored(FreshStore) /\ [][NextRebuildFavorites]_vars

\* C26: when a build installs its Catalog, every entry's isFavorite is the
\* membership of its id in the favorites of that moment, also when a
\* favorite was toggled, or favorites were added or removed in a batch,
\* while the extractions of the build were in flight.
C26_InstalledFlagsAreCurrent ==
  [][(\E b \in 1..Len(pending) : InstallBuild(b)) => Mirrors(allVideos', favorites')]_vars

\* the playlist at 0-based index is the object the filter refers to
IsActive(index) ==
  /\ index < Len(playlists)
  /\ \E p \in activePlaylist : p.oid = playlists[index + 1].oid

\* C27: in every reachable state the active playlist filter is none or
\* refers to a playlist that is an element of the playlists collection;
\* deleting the active playlist clears the filter, deleting another playlist
\* leaves the filter as it is, and an import of playlists does not leave
\* the filter referring to a playlist that is no longer in the collection.
C27_FilterRefersToAPlaylist ==
  /\ [](\A p \in activePlaylist : \E i \in 1..Len(playlists) : playlists[i].oid = p.oid)
  /\ [][\A index \in 0..MaxPlaylists :
          DeletePlaylist(index, TRUE) =>
            IF IsActive(index) THEN activePlaylist' = {} ELSE UNCHANGED activePlaylist]_vars

(***************************************************************************)
(* Start-up with two folder-backed playlists persisted, and the playlist   *)
(* commands the user gives while restoreFolderHandles is suspended.        *)
(***************************************************************************)
TwoFolderStore ==
  [favorites |-> {}, videoTags |-> {},
   playlists |-> {<< [name |-> <<"p">>, videos |-> {}, folderName |-> {"dir1"},
                     folderHandle |-> {}, savedDate |-> {1}],
                    [name |-> <<"m">>, videos |-> {}, folderName |-> {"dir2"},
                     folderHandle |-> {}, savedDate |-> {1}] >>},
   handles |-> (<<"p">> :> "dir1") @@ (<<"m">> :> "dir2")]

NextRestore ==
  \/ RestoreOpen
  \/ RestoreGet
  \/ \E index \in 0..MaxPlaylists, confirmed \in BOOLEAN : DeletePlaylist(index, confirmed)
  \/ \E input \in NameInputs : CreatePlaylist(input)
  \/ \E doc \in {d \in ImportDocs : d.playlists # {} /\ d.favorites = {}} : ImportData(doc)
  \/ Idle /\ \E index \in 0..MaxPlaylists : LoadPlaylist(index)
  \/ \E b \in 1..Len(pending), answer \in {"granted", "denied", "error"} :
       LoadPlaylistPermission(b, answer)
  \/ \E b \in 1..Len(pending) : \E i \in 1..Len(pending[b].files) : ExtractFile(b, i)
  \/ \E b \in 1..Len(pending) : InstallBuild(b)

SpecRestore == Startup(TwoFolderStore) /\ [][NextRestore]_vars

\* C28: the restoration at start-up attaches the handle it looked up under
\* a name only to the playlist of that name, also when playlists are
\* deleted, created or imported while it awaits the handle store.
C28_HandleGoesToItsName ==
  \A i \in 1..Len(playlists) :
    \A h \in playlists[i].folderHandle :
      h \in Handles =>
        /\ playlists[i].name \in DOMAIN handlesDB
        /\ handlesDB[playlists[i].name] = h

(***************************************************************************)
(* Saving the current folder as a playlist after folders were selected and *)
(* files were dropped.                                                     *)
(***************************************************************************)
NextSaveFolder ==
  \/ Idle /\ \E h \in Handles : SelectFolder(h)
  \/ Idle /\ \E batch \in DropBatches : HandleDrop(batch)
  \/ \E b \in 1..Len(pending) : \E i \in 1..Len(pending[b].files) : ExtractFile(b, i)
  \/ \E b \in 1..Len(pending) : InstallBuild(b)
  \/ Idle /\ \E input \in NameInputs : SavePlaylistStart(input)
  \/ \E b \in 1..Len(pending), granted \in BOOLEAN, now \in 1..MaxSavedDate :
       SavePlaylistPermission(b, granted, now)
  \/ \E b \in 1..Len(pending) : SavePlaylistPut(b)
  \/ \E b \in 1..Len(pending) : SavePlaylistStore(b)

SpecSaveFolder == Restored(FreshStore) /\ [][NextSaveFolder]_vars

\* the Catalog is what a build over the folder behind handle h gives
BuiltFrom(videos, h) == [i \in 1..Len(videos) |-> videos[i].file] = ReadDirectory(h)

\* C29: whenever a folder-backed playlist is saved, the directory handle
\* stored in it is the handle of the folder the current Catalog was built
\* from, also after a drop, a folder build that failed or is in flight, or
\* the load of a folder-backed playlist.
C29_SavedHandleIsCatalogSource ==
  [][\A b \in 1..Len(pending), now \in 1..MaxSavedDate :
       SavePlaylistPermission(b, TRUE, now) =>
         \A h \in playlists'[Len(playlists')].folderHandle : BuiltFrom(allVideos, h)]_vars

(***************************************************************************)
(* Builds over files of every outcome of the metadata load, with the       *)
(* scheduling of the event loop: a resolved promise's callback runs, and a *)
(* handler whose Promise.all has resolved resumes.                         *)
(***************************************************************************)
\* a file whose metadata loads with duration 0
FileEmpty(seeked) ==
  [name |-> <<"n", ".", "m", "p", "4">>, size |-> 3, lastModified |-> 3,
   decodes |-> TRUE, duration |-> 0, videoWidth |-> 1280, videoHeight |-> 720,
   at |-> "dir3", seeked |-> seeked]

LiveBatches ==
  LET files == {FileA, FileB, FileEmpty(TRUE), FileEmpty(FALSE)}
  IN  {<<f>> : f \in files} \cup {<<f, g>> : f \in files, g \in files}

ExtractSome ==
  \E b \in 1..Len(pending) : \E i \in 1..Len(pending[b].files) : ExtractFile(b, i)

InstallSome == \E b \in 1..Len(pending) : InstallBuild(b)

NextLive ==
  \/ Idle /\ \E batch \in LiveBatches : HandleDrop(batch)
  \/ ExtractSome
  \/ InstallSome

\* weak fairness of both; InstallSome is enabled exactly in the states of
\* Resuming and every step of it changes pending, so its weak fairness is
\* written out
SpecLive ==
  /\ Restored(FreshStore)
  /\ [][NextLive]_vars
  /\ WF_vars(ExtractSome)
  /\ ([]<>(~Resuming) \/ []<><<InstallSome>>_vars)

\* C30: every build that is started eventually finishes and installs its
\* Catalog, whatever the outcome of each file's metadata load, a file of
\* duration 0 included.
C30_BuildsFinish == (pending # <<>>) ~> (pending = <<>>)

====
